---- MODULE Spec2Model ----
(***************************************************************************)
(* A model of the GLYPH codec (c/glyph-codec): the value tree, the loose   *)
(* canonical writer of glyph.c and the JSON bridge of json.c.              *)
(*                                                                         *)
(* Text is modelled as it is in C: a sequence of bytes (0..255).  A value  *)
(* is a record tagged by its glyph_type_t.  64-bit integers and doubles    *)
(* are held as exact decimal digit sequences, because their range exceeds  *)
(* the integers of the model checker.                                      *)
(***************************************************************************)
EXTENDS Integers, Sequences, FiniteSets, TLC

(***************************************************************************)
(* Bytes and byte strings                                                  *)
(***************************************************************************)

\* The printable ASCII characters, code 32 (space) to 126 (~), in order (code
\* 96 is spelled out: the character cannot stand in a string of this module).
Printable ==
  <<" ", "!", "\"", "#", "$", "%", "&", "'", "(", ")", "*", "+", ",", "-", ".", "/",
    "0", "1", "2", "3", "4", "5", "6", "7", "8", "9", ":", ";", "<", "=", ">", "?",
    "@", "A", "B", "C", "D", "E", "F", "G", "H", "I", "J", "K", "L", "M", "N", "O",
    "P", "Q", "R", "S", "T", "U", "V", "W", "X", "Y", "Z", "[", "\\", "]", "^", "_",
    "backtick", "a", "b", "c", "d", "e", "f", "g", "h", "i", "j", "k", "l", "m", "n", "o",
    "p", "q", "r", "s", "t", "u", "v", "w", "x", "y", "z", "{", "|", "}", "~">>

OrdTable ==
  [c \in {Printable[i] : i \in 1..Len(Printable)} |->
     31 + (CHOOSE i \in 1..Len(Printable) : Printable[i] = c)]

\* The byte of a printable character, and the byte string of a tuple of them.
Ord(c) == OrdTable[c]

B(chars) == [i \in 1..Len(chars) |-> OrdTable[chars[i]]]

\* The C escapes used by the sources.
NL == 10
CR == 13
TAB == 9

isdigit(c) == c >= 48 /\ c <= 57

isalnum(c) == isdigit(c) \/ (c >= 65 /\ c <= 90) \/ (c >= 97 /\ c <= 122)

isspace(c) == c = 32 \/ (c >= 9 /\ c <= 13)

\* strcmp comparing the bytes as signed char: 128..255 sort before 0..127.
RECURSIVE strcmp_signed(_, _)
strcmp_signed(s1, s2) ==
  LET sc(c) == IF c >= 128 THEN c - 256 ELSE c
  IN IF s1 = <<>> /\ s2 = <<>> THEN 0
     ELSE IF s1 = <<>> THEN -1
     ELSE IF s2 = <<>> THEN 1
     ELSE IF sc(Head(s1)) < sc(Head(s2)) THEN -1
     ELSE IF sc(Head(s1)) > sc(Head(s2)) THEN 1
     ELSE strcmp_signed(Tail(s1), Tail(s2))

\* strcmp: byte-wise, unsigned; -1, 0 or 1 for the sign of the result.
RECURSIVE strcmp(_, _)
strcmp(s1, s2) ==
  IF s1 = <<>> /\ s2 = <<>> THEN 0
  ELSE IF s1 = <<>> THEN -1
  ELSE IF s2 = <<>> THEN 1
  ELSE IF Head(s1) < Head(s2) THEN -1
  ELSE IF Head(s1) > Head(s2) THEN 1
  ELSE strcmp(Tail(s1), Tail(s2))

RECURSIVE Concat(_)
Concat(seqs) == IF seqs = <<>> THEN <<>> ELSE Head(seqs) \o Concat(Tail(seqs))

\* snprintf("%zu") / "%d" of a small non-negative count.
RECURSIVE NatToDec(_)
NatToDec(n) ==
  IF n < 10 THEN <<48 + n>> ELSE NatToDec(n \div 10) \o <<48 + (n % 10)>>

HexDigit(n) == IF n < 10 THEN 48 + n ELSE 87 + n

(***************************************************************************)
(* String classifier and quoted form (glyph.c)                             *)
(***************************************************************************)

ReservedWords ==
  { B(<<"t">>), B(<<"f">>), B(<<"t", "r", "u", "e">>),
    B(<<"f", "a", "l", "s", "e">>), B(<<"n", "u", "l", "l">>), B(<<"_">>) }

BareChar(c) ==
  isalnum(c) \/ c = Ord("_") \/ c = Ord("-") \/ c = Ord(".")
    \/ c = Ord("/") \/ c = Ord("@") \/ c = Ord(":") \/ c > 127

\* is_bare_safe without its reserved-word block.
is_bare_safe_no_reserved(s) ==
  /\ s # <<>>
  /\ ~(isdigit(s[1]) \/ s[1] = Ord("\"") \/ s[1] = Ord("'") \/ s[1] = Ord("-"))
  /\ \A i \in 1..Len(s) : BareChar(s[i])

is_bare_safe(s) ==
  /\ s # <<>>
  /\ ~(isdigit(s[1]) \/ s[1] = Ord("\"") \/ s[1] = Ord("'") \/ s[1] = Ord("-"))
  /\ s \notin ReservedWords
  /\ \A i \in 1..Len(s) : BareChar(s[i])

RefBareChar(c) ==
  isalnum(c) \/ c = Ord("_") \/ c = Ord("-") \/ c = Ord(".") \/ c > 127

\* is_ref_bare_safe letting through the bytes of the general classifier.
is_ref_bare_safe_with_slash(s) ==
  /\ s # <<>>
  /\ \A i \in 1..Len(s) : BareChar(s[i])

is_ref_bare_safe(s) ==
  /\ s # <<>>
  /\ \A i \in 1..Len(s) : RefBareChar(s[i])

\* QuoteByte without the case for the backslash.
QuoteByte_raw_backslash(c) ==
  IF c = Ord("\"") THEN B(<<"\\", "\"">>)
  ELSE IF c = NL THEN B(<<"\\", "n">>)
  ELSE IF c = CR THEN B(<<"\\", "r">>)
  ELSE IF c = TAB THEN B(<<"\\", "t">>)
  ELSE IF c < 32
    THEN B(<<"\\", "u", "0", "0">>) \o <<HexDigit(c \div 16), HexDigit(c % 16)>>
  ELSE <<c>>

\* One byte of a quoted string body: the switch of write_quoted_string.
QuoteByte(c) ==
  IF c = Ord("\\") THEN B(<<"\\", "\\">>)
  ELSE IF c = Ord("\"") THEN B(<<"\\", "\"">>)
  ELSE IF c = NL THEN B(<<"\\", "n">>)
  ELSE IF c = CR THEN B(<<"\\", "r">>)
  ELSE IF c = TAB THEN B(<<"\\", "t">>)
  ELSE IF c < 32
    THEN B(<<"\\", "u", "0", "0">>) \o <<HexDigit(c \div 16), HexDigit(c % 16)>>
  ELSE <<c>>

write_quoted_string(s) ==
  B(<<"\"">>) \o Concat([i \in 1..Len(s) |-> QuoteByte(s[i])]) \o B(<<"\"">>)

write_canon_string(s) ==
  IF is_bare_safe(s) THEN s ELSE write_quoted_string(s)

(***************************************************************************)
(* Numbers.  An int64 is [neg, mag]: a sign and the decimal digits of the  *)
(* magnitude (no leading zeros, <<0>> for zero, never "negative zero").    *)
(* A double is the exact decimal expansion of its value, [neg, ip, fp]:    *)
(* sign bit, digits of the integer part (as for mag) and digits of the     *)
(* fraction (no trailing zeros).  Every finite double has such an          *)
(* expansion; -0.0 is [neg |-> TRUE, ip |-> <<0>>, fp |-> <<>>].           *)
(***************************************************************************)

Digits(ds) == [i \in 1..Len(ds) |-> 48 + ds[i]]

RECURSIVE StripLeadingZeros(_)
StripLeadingZeros(ds) ==
  IF Len(ds) > 1 /\ Head(ds) = 0 THEN StripLeadingZeros(Tail(ds)) ELSE ds

RECURSIVE StripTrailingZeros(_)
StripTrailingZeros(ds) ==
  IF ds # <<>> /\ ds[Len(ds)] = 0
    THEN StripTrailingZeros(SubSeq(ds, 1, Len(ds) - 1)) ELSE ds

AllZero(ds) == \A i \in 1..Len(ds) : ds[i] = 0

Zeros(n) == [i \in 1..n |-> 0]

\* The sign of (a - b) for two magnitudes without leading zeros.
RECURSIVE CmpDigits(_, _)
CmpDigits(a, b) ==
  IF Len(a) # Len(b) THEN (IF Len(a) < Len(b) THEN -1 ELSE 1)
  ELSE IF a = <<>> THEN 0
  ELSE IF Head(a) # Head(b) THEN (IF Head(a) < Head(b) THEN -1 ELSE 1)
  ELSE CmpDigits(Tail(a), Tail(b))

\* ds + 1, on digit sequences.
RECURSIVE IncDigits(_)
IncDigits(ds) ==
  IF ds = <<>> THEN <<1>>
  ELSE IF ds[Len(ds)] < 9
    THEN SubSeq(ds, 1, Len(ds) - 1) \o <<ds[Len(ds)] + 1>>
  ELSE IncDigits(SubSeq(ds, 1, Len(ds) - 1)) \o <<0>>

\* snprintf("%ld", (long)n) of an int64 (long is 64 bits wide: LP64).
FmtLong(n) == (IF n.neg THEN B(<<"-">>) ELSE <<>>) \o Digits(n.mag)

\* f == floor(f): the double has no fractional part.
IsWhole(f) == f.fp = <<>>

\* fabs(f) < 1e15: at most fifteen digits before the point.
Below1e15(f) == Len(f.ip) <= 15

\* (long)f of a whole double in range: the same integer; (long)-0.0 is 0.
CastLong(f) == [neg |-> f.neg /\ ~AllZero(f.ip), mag |-> f.ip]

\* printf's precision for %.15g.
G_PRECISION == 15

\* Round the significant digits sig to at most p digits, to nearest, ties to
\* even (the exact value is rounded); the result is [ds, carry], carry = 1
\* when rounding up produced one more digit (99..9 -> 100..0).
RoundSig(sig, p) ==
  IF Len(sig) <= p THEN [ds |-> sig, carry |-> 0]
  ELSE LET kept == SubSeq(sig, 1, p)
           rest == SubSeq(sig, p + 1, Len(sig))
           half == rest[1] = 5 /\ AllZero(Tail(rest))
           up == rest[1] > 5 \/ (rest[1] = 5 /\ ~half) \/ (half /\ kept[p] % 2 = 1)
           inc == IncDigits(kept)
       IN IF ~up THEN [ds |-> kept, carry |-> 0]
          ELSE IF Len(inc) > p THEN [ds |-> SubSeq(inc, 1, p), carry |-> 1]
          ELSE [ds |-> inc, carry |-> 0]

RECURSIVE LeadingZeroCount(_)
LeadingZeroCount(ds) ==
  IF ds # <<>> /\ Head(ds) = 0 THEN 1 + LeadingZeroCount(Tail(ds)) ELSE 0

\* snprintf("%.15g", f) of a finite double.
FmtG(f) ==
  LET sign == IF f.neg THEN B(<<"-">>) ELSE <<>>
      zero == AllZero(f.ip) /\ f.fp = <<>>
      lz == LeadingZeroCount(f.fp)
      \* decimal exponent and significant digits of the exact value
      x0 == IF ~AllZero(f.ip) THEN Len(f.ip) - 1 ELSE -(lz + 1)
      sig == IF ~AllZero(f.ip) THEN f.ip \o f.fp
             ELSE SubSeq(f.fp, lz + 1, Len(f.fp))
      r == RoundSig(sig, G_PRECISION)
      x == x0 + r.carry
      ds == StripTrailingZeros(r.ds)
      ax == IF x < 0 THEN -x ELSE x
      expo == B(<<"e">>) \o (IF x < 0 THEN B(<<"-">>) ELSE B(<<"+">>))
              \o (IF ax < 10 THEN B(<<"0">>) ELSE <<>>) \o NatToDec(ax)
  IN IF zero THEN sign \o B(<<"0">>)
     ELSE IF x < -4 \/ x >= G_PRECISION
       THEN sign \o Digits(<<ds[1]>>)
            \o (IF Len(ds) > 1 THEN B(<<".">>) \o Digits(Tail(ds)) ELSE <<>>)
            \o expo
     ELSE IF x >= 0
       THEN LET ipart == IF Len(ds) >= x + 1 THEN SubSeq(ds, 1, x + 1)
                         ELSE ds \o Zeros(x + 1 - Len(ds))
                fpart == IF Len(ds) > x + 1 THEN SubSeq(ds, x + 2, Len(ds)) ELSE <<>>
            IN sign \o Digits(ipart)
               \o (IF fpart # <<>> THEN B(<<".">>) \o Digits(fpart) ELSE <<>>)
     ELSE sign \o B(<<"0", ".">>) \o Digits(Zeros(-x - 1) \o ds)

(***************************************************************************)
(* The value model (glyph.h, constructors of glyph.c)                      *)
(***************************************************************************)

\* A NULL glyph_value_t pointer (an absent value).
NULLPTR == [type |-> "NULL"]

glyph_null == [type |-> "null"]

glyph_bool(val) == [type |-> "bool", bool_val |-> val]

glyph_int(val) == [type |-> "int", int_val |-> val]

glyph_float(val) == [type |-> "float", float_val |-> val]

glyph_str(val) == [type |-> "str", str_val |-> val]

glyph_bytes(data) == [type |-> "bytes", data |-> data]

glyph_id(prefix, value) == [type |-> "id", prefix |-> prefix, value |-> value]

glyph_list_new == [type |-> "list", items |-> <<>>]

glyph_map_new == [type |-> "map", entries |-> <<>>]

glyph_struct_new(type_name) ==
  [type |-> "struct", type_name |-> type_name, fields |-> <<>>]

glyph_sum(tag, value) == [type |-> "sum", tag |-> tag, value |-> value]

\* A char pointer argument: NULL, or a pointer to a C string.
NULL_STR == [null |-> TRUE]
StrPtr(s) == [null |-> FALSE, chars |-> s]

\* glyph_list_append storing the new item at index 0 instead of index count.
glyph_list_append_at_front(list, item) ==
  IF list = NULLPTR \/ list.type # "list" \/ item = NULLPTR THEN list
  ELSE [list EXCEPT !.items = <<item>> \o @]

\* The appenders return the container after the call (realloc and the key's
\* strdup_safe succeeding); key is a char pointer, the entry holds its copy.
glyph_list_append(list, item) ==
  IF list = NULLPTR \/ list.type # "list" \/ item = NULLPTR THEN list
  ELSE [list EXCEPT !.items = Append(@, item)]

glyph_map_set(map, key, value) ==
  IF map = NULLPTR \/ map.type # "map" \/ key = NULL_STR \/ value = NULLPTR THEN map
  ELSE [map EXCEPT !.entries = Append(@, [key |-> key.chars, value |-> value])]

glyph_struct_set(s, key, value) ==
  IF s = NULLPTR \/ s.type # "struct" \/ key = NULL_STR \/ value = NULLPTR THEN s
  ELSE [s EXCEPT !.fields = Append(@, [key |-> key.chars, value |-> value])]

(***************************************************************************)
(* Accessors (glyph.c, "Value Accessors").  A NULL char pointer is         *)
(* NULL_STR; a string pointer is StrPtr(bytes).                            *)
(***************************************************************************)


INT_ZERO == [neg |-> FALSE, mag |-> <<0>>]
FLOAT_ZERO == [neg |-> FALSE, ip |-> <<0>>, fp |-> <<>>]

glyph_get_type(v) == IF v # NULLPTR THEN v.type ELSE "null"

glyph_as_bool(v) == IF v # NULLPTR /\ v.type = "bool" THEN v.bool_val ELSE FALSE

glyph_as_int(v) == IF v # NULLPTR /\ v.type = "int" THEN v.int_val ELSE INT_ZERO

glyph_as_float(v) == IF v # NULLPTR /\ v.type = "float" THEN v.float_val ELSE FLOAT_ZERO

glyph_as_str(v) == IF v # NULLPTR /\ v.type = "str" THEN StrPtr(v.str_val) ELSE NULL_STR

glyph_list_len(v) == IF v # NULLPTR /\ v.type = "list" THEN Len(v.items) ELSE 0

\* glyph_list_get with the bound test off by one: the slot after the last item
\* is read and holds some non-NULL pointer.
glyph_list_get_off_by_one(v, index) ==
  IF v = NULLPTR \/ v.type # "list" \/ index > Len(v.items) THEN NULLPTR
  ELSE IF index = Len(v.items) THEN glyph_null
  ELSE v.items[index + 1]

\* index is a size_t, counted from 0.
glyph_list_get(v, index) ==
  IF v = NULLPTR \/ v.type # "list" \/ index >= Len(v.items) THEN NULLPTR
  ELSE v.items[index + 1]

\* The loop of glyph_get without its early return: the last entry whose key
\* compares equal is the one it ends with.
RECURSIVE glyph_get_from_keep_going(_, _, _)
glyph_get_from_keep_going(entries, i, key) ==
  IF i > Len(entries) THEN NULLPTR
  ELSE LET later == glyph_get_from_keep_going(entries, i + 1, key)
       IN IF later # NULLPTR THEN later
          ELSE IF strcmp(entries[i].key, key) = 0 THEN entries[i].value
          ELSE NULLPTR

\* The for loop of glyph_get over entries from position i on: the first entry
\* whose key compares equal is returned.
RECURSIVE glyph_get_from(_, _, _)
glyph_get_from(entries, i, key) ==
  IF i > Len(entries) THEN NULLPTR
  ELSE IF strcmp(entries[i].key, key) = 0 THEN entries[i].value
  ELSE glyph_get_from(entries, i + 1, key)

\* key is a string pointer: NULL_STR or StrPtr(bytes).
glyph_get(v, key) ==
  IF v = NULLPTR \/ key = NULL_STR THEN NULLPTR
  ELSE IF v.type = "map" THEN glyph_get_from(v.entries, 1, key.chars)
  ELSE IF v.type = "struct" THEN glyph_get_from(v.fields, 1, key.chars)
  ELSE NULLPTR

(***************************************************************************)
(* Canonicalization options                                                *)
(***************************************************************************)

DEFAULT_MIN_ROWS == 3
DEFAULT_MAX_COLS == 64

glyph_canon_opts_default ==
  [auto_tabular |-> TRUE, min_rows |-> DEFAULT_MIN_ROWS, max_cols |-> DEFAULT_MAX_COLS,
   allow_missing |-> TRUE, null_style |-> "GLYPH_NULL_UNDERSCORE"]

glyph_canon_opts_llm == glyph_canon_opts_default

glyph_canon_opts_pretty ==
  [glyph_canon_opts_default EXCEPT !.null_style = "GLYPH_NULL_SYMBOL"]

glyph_canon_opts_no_tabular ==
  [glyph_canon_opts_default EXCEPT !.auto_tabular = FALSE]

\* "_" or the three UTF-8 bytes of U+2205.
canon_null(style) ==
  IF style = "GLYPH_NULL_SYMBOL" THEN <<226, 136, 133>> ELSE B(<<"_">>)

(***************************************************************************)
(* The canonical writer.  The output buffer is append-only, so each writer *)
(* is modelled by the text it appends.  env is what the call reads besides *)
(* the value and the options:                                              *)
(*   env.ties  how qsort orders elements that compare equal in this call   *)
(*             (unspecified by C);                                         *)
(*   env.heap  the order of the addresses malloc returns within the call:  *)
(*             heap[i] is the rank of the address of the i-th key copy     *)
(*             made by check_homogeneous.                                  *)
(***************************************************************************)

compare_entries(ea, eb) == strcmp(ea.key, eb.key)

\* Where qsort puts e among the already sorted entries.
RECURSIVE InsertEntry(_, _, _)
InsertEntry(sorted, e, ties) ==
  IF sorted = <<>> THEN <<e>>
  ELSE LET c == compare_entries(Head(sorted), e)
       IN IF c > 0 \/ (c = 0 /\ ties = "reverse") THEN <<e>> \o sorted
          ELSE <<Head(sorted)>> \o InsertEntry(Tail(sorted), e, ties)

\* qsort(sorted, count, sizeof(glyph_map_entry_t), compare_entries)
RECURSIVE qsort_entries(_, _)
qsort_entries(entries, ties) ==
  IF entries = <<>> THEN <<>>
  ELSE InsertEntry(qsort_entries(SubSeq(entries, 1, Len(entries) - 1), ties),
                   entries[Len(entries)], ties)

\* The entry array of a Map or a Struct item, as the tabular code reads it.
EntriesOf(item) ==
  IF item.type = "map" THEN item.entries
  ELSE IF item.type = "struct" THEN item.fields
  ELSE <<>>

HasKey(entries, key) == \E j \in 1..Len(entries) : entries[j].key = key

\* The first pass of check_homogeneous over one item: every key not yet in
\* all_keys is copied (strdup_safe) and appended.
RECURSIVE CollectKeys(_, _)
CollectKeys(all_keys, entries) ==
  IF entries = <<>> THEN all_keys
  ELSE LET key == Head(entries).key
           found == \E k \in 1..Len(all_keys) : all_keys[k] = key
       IN CollectKeys(IF found THEN all_keys ELSE Append(all_keys, key), Tail(entries))

RECURSIVE CollectAllKeys(_, _)
CollectAllKeys(all_keys, items) ==
  IF items = <<>> THEN all_keys
  ELSE CollectAllKeys(CollectKeys(all_keys, EntriesOf(Head(items))), Tail(items))

\* qsort(all_keys, n, sizeof(char *), (int (*)(const void *, const void *))strcmp):
\* qsort hands the comparator the addresses of two array slots (char **), and
\* strcmp reads the bytes stored there, which are the pointers to the key
\* copies, not the key text.  The slots end up ordered by the bytes of those
\* addresses: by heap, whatever the keys are.
qsort_strcmp(all_keys, heap) ==
  LET n == Len(all_keys)
      addr(i) == IF i \in DOMAIN heap THEN heap[i] ELSE Len(heap) + i
      slot(r) == CHOOSE i \in 1..n : Cardinality({j \in 1..n : addr(j) < addr(i)}) = r - 1
  IN [r \in 1..n |-> all_keys[slot(r)]]

\* check_homogeneous with the 50% test written as "more than half".
check_homogeneous_over_half(items, opts, env) ==
  LET count == Len(items)
      no == [ok |-> FALSE, cols |-> <<>>]
      all_keys == CollectAllKeys(<<>>, items)
      all_keys_count == Len(all_keys)
      in_all(k) == \A i \in 1..count : HasKey(EntriesOf(items[i]), all_keys[k])
      common_count == Cardinality({k \in 1..all_keys_count : in_all(k)})
  IN IF count < opts.min_rows THEN no
     ELSE IF \E i \in 1..count : items[i].type \notin {"map", "struct"} THEN no
     ELSE IF all_keys_count = 0 \/ all_keys_count > opts.max_cols THEN no
     ELSE IF common_count * 2 <= all_keys_count THEN no
     ELSE [ok |-> TRUE, cols |-> qsort_strcmp(all_keys, env.heap)]

\* check_homogeneous with the row threshold written as "count <= min_rows".
check_homogeneous_more_rows(items, opts, env) ==
  LET count == Len(items)
      no == [ok |-> FALSE, cols |-> <<>>]
      all_keys == CollectAllKeys(<<>>, items)
      all_keys_count == Len(all_keys)
      in_all(k) == \A i \in 1..count : HasKey(EntriesOf(items[i]), all_keys[k])
      common_count == Cardinality({k \in 1..all_keys_count : in_all(k)})
  IN IF count <= opts.min_rows THEN no
     ELSE IF \E i \in 1..count : items[i].type \notin {"map", "struct"} THEN no
     ELSE IF all_keys_count = 0 \/ all_keys_count > opts.max_cols THEN no
     ELSE IF common_count * 2 < all_keys_count THEN no
     ELSE [ok |-> TRUE, cols |-> qsort_strcmp(all_keys, env.heap)]

\* check_homogeneous: [ok, cols]; cols are the sorted columns when ok.
check_homogeneous(items, opts, env) ==
  LET count == Len(items)
      no == [ok |-> FALSE, cols |-> <<>>]
      all_keys == CollectAllKeys(<<>>, items)
      all_keys_count == Len(all_keys)
      in_all(k) == \A i \in 1..count : HasKey(EntriesOf(items[i]), all_keys[k])
      common_count == Cardinality({k \in 1..all_keys_count : in_all(k)})
  IN IF count < opts.min_rows THEN no
     ELSE IF \E i \in 1..count : items[i].type \notin {"map", "struct"} THEN no
     ELSE IF all_keys_count = 0 \/ all_keys_count > opts.max_cols THEN no
     ELSE IF common_count * 2 < all_keys_count THEN no
     ELSE [ok |-> TRUE, cols |-> qsort_strcmp(all_keys, env.heap)]

\* The key copies (strdup_safe) check_homogeneous has made and neither freed
\* nor handed to its caller when it returns.  Each return frees what it
\* names: none has allocated yet when count < min_rows; the return for an
\* item that is neither Map nor Struct frees the array all_keys only, not
\* the copies collected from the items before it; the other rejections free
\* every copy and the array; on success the caller gets both.
check_homogeneous_unreleased(items, opts) ==
  LET count == Len(items)
      IsObject(i) == items[i].type \in {"map", "struct"}
  IN IF count < opts.min_rows THEN <<>>
     ELSE IF \E i \in 1..count : ~IsObject(i)
       THEN LET first == CHOOSE i \in 1..count : ~IsObject(i) /\ \A j \in 1..(i - 1) : IsObject(j)
            IN CollectAllKeys(<<>>, SubSeq(items, 1, first - 1))
     ELSE <<>>

\* The cell lookup of write_tabular: the first entry with the column's key.
CellOf(entries, col) ==
  IF HasKey(entries, col)
    THEN entries[CHOOSE j \in 1..Len(entries) :
                   entries[j].key = col /\ \A i \in 1..(j - 1) : entries[i].key # col].value
    ELSE NULLPTR

JoinWith(sep, parts) ==
  Concat([i \in 1..Len(parts) |-> (IF i > 1 THEN sep ELSE <<>>) \o parts[i]])

RECURSIVE write_canon_value(_, _, _)

write_canon_map(entries, opts, env) ==
  LET sorted == qsort_entries(entries, env.ties)
  IN B(<<"{">>)
     \o JoinWith(B(<<" ">>),
          [i \in 1..Len(sorted) |->
             write_canon_string(sorted[i].key) \o B(<<"=">>)
               \o write_canon_value(sorted[i].value, opts, env)])
     \o B(<<"}">>)

write_tabular(items, cols, opts, env) ==
  LET row(i) ==
        B(<<"|">>)
        \o Concat([c \in 1..Len(cols) |->
             LET cell_val == CellOf(EntriesOf(items[i]), cols[c])
             IN (IF cell_val # NULLPTR THEN write_canon_value(cell_val, opts, env)
                 ELSE canon_null(opts.null_style)) \o B(<<"|">>)])
        \o <<NL>>
  IN B(<<"@", "t", "a", "b", " ", "_", " ", "r", "o", "w", "s", "=">>)
     \o NatToDec(Len(items))
     \o B(<<" ", "c", "o", "l", "s", "=">>) \o NatToDec(Len(cols)) \o B(<<" ", "[">>)
     \o JoinWith(B(<<" ">>), [i \in 1..Len(cols) |-> write_canon_string(cols[i])])
     \o B(<<"]">>) \o <<NL>>
     \o Concat([i \in 1..Len(items) |-> row(i)])
     \o B(<<"@", "e", "n", "d">>)

\* write_canon_list trying the tabular form whatever opts.auto_tabular says.
write_canon_list_always_try(items, opts, env) ==
  LET h == check_homogeneous(items, opts, env)
  IN IF h.ok THEN write_tabular(items, h.cols, opts, env)
     ELSE B(<<"[">>)
          \o JoinWith(B(<<" ">>),
               [i \in 1..Len(items) |-> write_canon_value(items[i], opts, env)])
          \o B(<<"]">>)

write_canon_list(items, opts, env) ==
  LET h == IF opts.auto_tabular THEN check_homogeneous(items, opts, env)
           ELSE [ok |-> FALSE, cols |-> <<>>]
  IN IF h.ok THEN write_tabular(items, h.cols, opts, env)
     ELSE B(<<"[">>)
          \o JoinWith(B(<<" ">>),
               [i \in 1..Len(items) |-> write_canon_value(items[i], opts, env)])
          \o B(<<"]">>)

\* The Float arm without its whole-number branch: always "%.15g".
write_canon_float_g_only(f) == FmtG(f)

write_canon_float(f) ==
  IF IsWhole(f) /\ Below1e15(f) THEN FmtLong(CastLong(f)) ELSE FmtG(f)

write_canon_value(v, opts, env) ==
  IF v = NULLPTR THEN canon_null(opts.null_style)
  ELSE CASE v.type = "null" -> canon_null(opts.null_style)
         [] v.type = "bool" -> IF v.bool_val THEN B(<<"t">>) ELSE B(<<"f">>)
         [] v.type = "int" -> FmtLong(v.int_val)
         [] v.type = "float" -> write_canon_float(v.float_val)
         [] v.type = "str" -> write_canon_string(v.str_val)
         [] v.type = "id" ->
              B(<<"^">>)
              \o (IF v.prefix # <<>> THEN v.prefix \o B(<<":">>) ELSE <<>>)
              \o (IF is_ref_bare_safe(v.value) THEN v.value
                  ELSE write_quoted_string(v.value))
         [] v.type = "list" -> write_canon_list(v.items, opts, env)
         [] v.type = "map" -> write_canon_map(v.entries, opts, env)
         [] v.type = "struct" -> v.type_name \o write_canon_map(v.fields, opts, env)
         [] v.type = "sum" ->
              v.tag \o B(<<"(">>)
              \o (IF v.value # NULLPTR THEN write_canon_value(v.value, opts, env)
                  ELSE <<>>)
              \o B(<<")">>)

\* write_canon_map sorting the caller's array itself, without the copy.
entries_sorted_in_place(entries, ties) == qsort_entries(entries, ties)

\* The caller's entry array when write_canon_map returns: the sort ran on the
\* copy "sorted" (on nothing if its malloc failed), and entries is const.
entries_after_write(entries, ties) == entries

\* The value as it is stored when write_canon_value returns: what the writer
\* has done to each array it walked.  A table's rows are read cell by cell;
\* every other Map or Struct goes through write_canon_map.
RECURSIVE value_after_write(_, _, _)
value_after_write(v, opts, env) ==
  LET entries_after(entries, sorting) ==
        LET e == IF sorting THEN entries_after_write(entries, env.ties) ELSE entries
        IN [i \in 1..Len(e) |->
              [e[i] EXCEPT !.value = value_after_write(@, opts, env)]]
  IN IF v = NULLPTR THEN v
     ELSE CASE v.type = "list" ->
                 LET h == IF opts.auto_tabular THEN check_homogeneous(v.items, opts, env)
                          ELSE [ok |-> FALSE, cols |-> <<>>]
                 IN [v EXCEPT !.items =
                       [i \in 1..Len(@) |->
                          IF ~h.ok THEN value_after_write(@[i], opts, env)
                          ELSE IF @[i].type = "map"
                            THEN [@[i] EXCEPT !.entries = entries_after(@, FALSE)]
                          ELSE [@[i] EXCEPT !.fields = entries_after(@, FALSE)]]]
            [] v.type = "map" -> [v EXCEPT !.entries = entries_after(@, TRUE)]
            [] v.type = "struct" -> [v EXCEPT !.fields = entries_after(@, TRUE)]
            [] v.type = "sum" -> [v EXCEPT !.value = value_after_write(@, opts, env)]
            [] OTHER -> v

\* Every allocation made while write_canon_value writes v that is still live
\* when it returns, the output buffer aside.  write_canon_map frees its sorted
\* copy and write_canon_list frees the columns of a table it has written, so
\* what remains is what check_homogeneous left behind, for each list walked.
RECURSIVE canon_unreleased(_, _, _)
canon_unreleased(v, opts, env) ==
  LET of_values(vals) == Concat([i \in 1..Len(vals) |-> canon_unreleased(vals[i], opts, env)])
      of_entries(entries) ==
        of_values([i \in 1..Len(entries) |-> entries[i].value])
  IN IF v = NULLPTR THEN <<>>
     ELSE CASE v.type = "list" ->
                 LET h == IF opts.auto_tabular THEN check_homogeneous(v.items, opts, env)
                          ELSE [ok |-> FALSE, cols |-> <<>>]
                 IN (IF opts.auto_tabular THEN check_homogeneous_unreleased(v.items, opts)
                     ELSE <<>>)
                    \o (IF h.ok
                          THEN Concat([i \in 1..Len(v.items) |->
                                 of_values(SelectSeq(
                                   [c \in 1..Len(h.cols) |->
                                      CellOf(EntriesOf(v.items[i]), h.cols[c])],
                                   LAMBDA cell : cell # NULLPTR))])
                        ELSE of_values(v.items))
            [] v.type = "map" -> of_entries(v.entries)
            [] v.type = "struct" -> of_entries(v.fields)
            [] v.type = "sum" -> canon_unreleased(v.value, opts, env)
            [] OTHER -> <<>>

glyph_canonicalize_loose_with_opts(v, opts, env) == write_canon_value(v, opts, env)

glyph_canonicalize_loose(v, env) ==
  glyph_canonicalize_loose_with_opts(v, glyph_canon_opts_default, env)

glyph_canonicalize_loose_no_tabular(v, env) ==
  glyph_canonicalize_loose_with_opts(v, glyph_canon_opts_no_tabular, env)

glyph_fingerprint_loose(v, env) == glyph_canonicalize_loose(v, env)

\* Two canonicalize calls, each on the heap it finds, then strcmp.
glyph_equal_loose(a, b, ties, heap_a, heap_b) ==
  strcmp(glyph_canonicalize_loose(a, [ties |-> ties, heap |-> heap_a]),
         glyph_canonicalize_loose(b, [ties |-> ties, heap |-> heap_b])) = 0

(***************************************************************************)
(* JSON serialization (json.c).  As for the canonical writer, the buffer   *)
(* is append-only and each writer is the text it appends.                  *)
(***************************************************************************)

\* write_json_string escapes exactly as write_quoted_string does.
write_json_string(s) ==
  B(<<"\"">>) \o Concat([i \in 1..Len(s) |-> QuoteByte(s[i])]) \o B(<<"\"">>)

RECURSIVE write_json_value(_)

write_json_entries(entries) ==
  [i \in 1..Len(entries) |->
     write_json_string(entries[i].key) \o B(<<":">>)
       \o write_json_value(entries[i].value)]

write_json_value(v) ==
  IF v = NULLPTR THEN B(<<"n", "u", "l", "l">>)
  ELSE CASE v.type = "null" -> B(<<"n", "u", "l", "l">>)
         [] v.type = "bool" ->
              IF v.bool_val THEN B(<<"t", "r", "u", "e">>)
              ELSE B(<<"f", "a", "l", "s", "e">>)
         [] v.type = "int" -> FmtLong(v.int_val)
         [] v.type = "float" -> FmtG(v.float_val)
         [] v.type = "str" -> write_json_string(v.str_val)
         [] v.type = "id" ->
              B(<<"\"", "^">>)
              \o (IF v.prefix # <<>> THEN v.prefix \o B(<<":">>) ELSE <<>>)
              \o v.value \o B(<<"\"">>)
         [] v.type = "list" ->
              B(<<"[">>)
              \o JoinWith(B(<<",">>), [i \in 1..Len(v.items) |-> write_json_value(v.items[i])])
              \o B(<<"]">>)
         [] v.type = "map" ->
              B(<<"{">>) \o JoinWith(B(<<",">>), write_json_entries(v.entries)) \o B(<<"}">>)
         [] v.type = "struct" ->
              B(<<"{", "\"", "_", "t", "y", "p", "e", "\"", ":">>)
              \o write_json_string(v.type_name)
              \o Concat([i \in 1..Len(v.fields) |->
                           B(<<",">>) \o write_json_entries(v.fields)[i]])
              \o B(<<"}">>)
         [] v.type = "sum" ->
              B(<<"{", "\"", "_", "t", "a", "g", "\"", ":">>)
              \o write_json_string(v.tag)
              \o (IF v.value # NULLPTR
                    THEN B(<<",", "\"", "_", "v", "a", "l", "u", "e", "\"", ":">>)
                         \o write_json_value(v.value)
                    ELSE <<>>)
              \o B(<<"}">>)

glyph_to_json(v) == write_json_value(v)

(***************************************************************************)
(* JSON parser (json.c).  The parser state is the input (a C string: the   *)
(* bytes before its NUL) and the cursor pos, counted from 0; the byte at   *)
(* pos is input[pos + 1].  Each parse function returns its result and the  *)
(* cursor it leaves.                                                       *)
(***************************************************************************)

\* The char at index i of the NUL-terminated input.
At(input, i) == IF i < Len(input) THEN input[i + 1] ELSE 0

RECURSIVE skip_whitespace(_, _)
skip_whitespace(input, pos) ==
  IF pos < Len(input) /\ isspace(input[pos + 1]) THEN skip_whitespace(input, pos + 1)
  ELSE pos

peek(input, pos) ==
  LET q == skip_whitespace(input, pos)
  IN [c |-> IF q < Len(input) THEN input[q + 1] ELSE 0, pos |-> q]

next(input, pos) ==
  LET q == skip_whitespace(input, pos)
  IN IF q < Len(input) THEN [c |-> input[q + 1], pos |-> q + 1]
     ELSE [c |-> 0, pos |-> q]

match(input, pos, s) ==
  LET q == skip_whitespace(input, pos)
  IN IF q + Len(s) <= Len(input) /\ SubSeq(input, q + 1, q + Len(s)) = s
       THEN [ok |-> TRUE, pos |-> q + Len(s)]
       ELSE [ok |-> FALSE, pos |-> q]

\* The C string a char buffer holds: its bytes before the first NUL.
RECURSIVE CStr(_)
CStr(buf) ==
  IF buf = <<>> \/ Head(buf) = 0 THEN <<>> ELSE <<Head(buf)>> \o CStr(Tail(buf))

HexVal(c) ==
  IF isdigit(c) THEN c - 48
  ELSE IF c >= 97 /\ c <= 102 THEN c - 87
  ELSE IF c >= 65 /\ c <= 70 THEN c - 55
  ELSE -1

\* strtoul(hex, NULL, 16) of the four bytes after \u: the value of the
\* longest prefix of hexadecimal digits (0 when there is none).
RECURSIVE strtoul16(_, _)
strtoul16(hex, acc) ==
  IF hex = <<>> \/ HexVal(Head(hex)) < 0 THEN acc
  ELSE strtoul16(Tail(hex), acc * 16 + HexVal(Head(hex)))

\* The bytes parse_string stores for \uXXXX with the given code point.
Utf8(code) ==
  IF code < 128 THEN <<code>>
  ELSE IF code < 2048 THEN <<192 + (code \div 64), 128 + (code % 64)>>
  ELSE <<224 + (code \div 4096), 128 + ((code \div 64) % 64), 128 + (code % 64)>>

\* The loop of parse_string, from the byte after the opening quote; str is
\* the buffer written so far.
RECURSIVE parse_string_loop(_, _, _)
parse_string_loop(input, pos, str) ==
  IF pos >= Len(input) THEN [ok |-> FALSE, str |-> <<>>, pos |-> pos]
  ELSE LET c == input[pos + 1]
           p1 == pos + 1
       IN IF c = Ord("\"") THEN [ok |-> TRUE, str |-> str, pos |-> p1]
          ELSE IF c = Ord("\\") /\ p1 < Len(input)
            THEN LET e == input[p1 + 1]
                     p2 == p1 + 1
                 IN IF e = Ord("n") THEN parse_string_loop(input, p2, str \o <<NL>>)
                    ELSE IF e = Ord("r") THEN parse_string_loop(input, p2, str \o <<CR>>)
                    ELSE IF e = Ord("t") THEN parse_string_loop(input, p2, str \o <<TAB>>)
                    ELSE IF e = Ord("u") /\ p2 + 4 <= Len(input)
                      THEN parse_string_loop(input, p2 + 4,
                             str \o Utf8(strtoul16(SubSeq(input, p2 + 1, p2 + 4), 0)))
                    ELSE parse_string_loop(input, p2, str \o <<e>>)
          ELSE parse_string_loop(input, p1, str \o <<c>>)

parse_string(input, pos) ==
  LET n == next(input, pos)
  IN IF n.c # Ord("\"") THEN [ok |-> FALSE, str |-> <<>>, pos |-> n.pos]
     ELSE parse_string_loop(input, n.pos, <<>>)

\* The end of the run of decimal digits starting at index i.
RECURSIVE DigitsEnd(_, _)
DigitsEnd(input, i) ==
  IF isdigit(At(input, i)) THEN DigitsEnd(input, i + 1) ELSE i

DigitVals(input, from, to) == [i \in 1..(to - from) |-> input[from + i] - 48]

LLONG_MAX_MAG == <<9, 2, 2, 3, 3, 7, 2, 0, 3, 6, 8, 5, 4, 7, 7, 5, 8, 0, 7>>
LLONG_MIN_MAG == <<9, 2, 2, 3, 3, 7, 2, 0, 3, 6, 8, 5, 4, 7, 7, 5, 8, 0, 8>>

\* strtoll(start, &end, 10) at a cursor that stands on '-' or a digit:
\* [ok, val, end]; ok is end > start.  Out of range values are clamped.
strtoll(input, start) ==
  LET neg == At(input, start) = Ord("-")
      d0 == IF neg \/ At(input, start) = Ord("+") THEN start + 1 ELSE start
      d1 == DigitsEnd(input, d0)
      mag == StripLeadingZeros(DigitVals(input, d0, d1))
      lim == IF neg THEN LLONG_MIN_MAG ELSE LLONG_MAX_MAG
      clamped == IF CmpDigits(mag, lim) > 0 THEN lim ELSE mag
  IN IF d1 = d0 THEN [ok |-> FALSE, val |-> [neg |-> FALSE, mag |-> <<0>>], end |-> start]
     ELSE [ok |-> TRUE, val |-> [neg |-> neg /\ ~AllZero(clamped), mag |-> clamped],
           end |-> d1]

\* The decimal exponent after e/E at index i: [ok, neg, end, digits].
ExponentAt(input, i) ==
  LET signed == At(input, i + 1) = Ord("-") \/ At(input, i + 1) = Ord("+")
      d0 == IF signed THEN i + 2 ELSE i + 1
      d1 == DigitsEnd(input, d0)
  IN [ok |-> (At(input, i) = Ord("e") \/ At(input, i) = Ord("E")) /\ d1 > d0,
      neg |-> At(input, i + 1) = Ord("-"), from |-> d0, end |-> d1]

\* The value of a short run of exponent digits.
RECURSIVE SmallNat(_, _)
SmallNat(ds, acc) == IF ds = <<>> THEN acc ELSE SmallNat(Tail(ds), acc * 10 + Head(ds))

\* ip.fp times 10^e.
ShiftDecimal(ip, fp, e) ==
  LET ip2 == IF e >= 0
               THEN ip \o (IF Len(fp) >= e THEN SubSeq(fp, 1, e) ELSE fp \o Zeros(e - Len(fp)))
             ELSE IF Len(ip) > -e THEN SubSeq(ip, 1, Len(ip) + e) ELSE <<0>>
      fp2 == IF e >= 0
               THEN (IF Len(fp) > e THEN SubSeq(fp, e + 1, Len(fp)) ELSE <<>>)
             ELSE (IF Len(ip) > -e THEN SubSeq(ip, Len(ip) + e + 1, Len(ip))
                   ELSE Zeros(-e - Len(ip)) \o ip) \o fp
  IN [ip |-> StripLeadingZeros(ip2), fp |-> StripTrailingZeros(fp2)]

\* strtod(start, &end) where strtoll found digits followed by '.', 'e' or
\* 'E': a decimal literal.  The double is held as the exact decimal value
\* of the literal (exact for every literal that is a double's value).
strtod(input, start) ==
  LET neg == At(input, start) = Ord("-")
      d0 == IF neg \/ At(input, start) = Ord("+") THEN start + 1 ELSE start
      d1 == DigitsEnd(input, d0)
      dot == At(input, d1) = Ord(".")
      f1 == IF dot THEN DigitsEnd(input, d1 + 1) ELSE d1
      ip == StripLeadingZeros(DigitVals(input, d0, d1))
      fp == IF dot THEN DigitVals(input, d1 + 1, f1) ELSE <<>>
      ex == ExponentAt(input, f1)
      e == IF ex.ok
             THEN (IF ex.neg THEN -1 ELSE 1) * SmallNat(DigitVals(input, ex.from, ex.end), 0)
           ELSE 0
      sh == ShiftDecimal(ip, fp, e)
  IN [val |-> [neg |-> neg, ip |-> sh.ip, fp |-> sh.fp],
      end |-> IF ex.ok THEN ex.end ELSE f1]

parse_number(input, pos) ==
  LET start == skip_whitespace(input, pos)
      i == strtoll(input, start)
      endc == At(input, i.end)
  IN IF i.ok /\ (endc = Ord(".") \/ endc = Ord("e") \/ endc = Ord("E"))
       THEN LET d == strtod(input, start)
            IN [ok |-> TRUE, val |-> glyph_float(d.val), pos |-> d.end]
     ELSE IF i.ok THEN [ok |-> TRUE, val |-> glyph_int(i.val), pos |-> i.end]
     ELSE [ok |-> FALSE, val |-> NULLPTR, pos |-> start]

RECURSIVE parse_value(_, _)
RECURSIVE parse_array_loop(_, _, _)
RECURSIVE parse_object_loop(_, _, _)

\* What a parse function leaves behind when it returns: of the blocks that
\* are live at the return statement (the container under construction with
\* everything appended to it, a key string), those the path did not free.
Unreleased(live, freed) == SelectSeq(live, LAMBDA b : \A k \in 1..Len(freed) : freed[k] # b)

\* "return NULL" with nothing live.
Fail(pos) == [ok |-> FALSE, val |-> NULLPTR, pos |-> pos, leak |-> <<>>]

\* A leaf value: nothing else was allocated.
Parsed(val, pos) == [ok |-> TRUE, val |-> val, pos |-> pos, leak |-> <<>>]

\* parse_array with the error returns of its loop handing back the list
\* built so far instead of freeing it.
parse_array_loop_keep_list(input, pos, list) ==
  LET item == parse_value(input, pos)
  IN IF ~item.ok
       THEN [ok |-> TRUE, val |-> list, pos |-> item.pos, leak |-> item.leak]
     ELSE LET list2 == glyph_list_append(list, item.val)
              c == peek(input, item.pos)
          IN IF c.c = Ord("]")
               THEN [ok |-> TRUE, val |-> list2, pos |-> next(input, c.pos).pos,
                     leak |-> item.leak]
             ELSE IF c.c # Ord(",")
               THEN [ok |-> TRUE, val |-> list2, pos |-> c.pos, leak |-> item.leak]
             ELSE LET rest == parse_array_loop(input, next(input, c.pos).pos, list2)
                  IN [rest EXCEPT !.leak = item.leak \o @]

\* The while (1) loop of parse_array.  list holds the items appended so far.
parse_array_loop(input, pos, list) ==
  LET item == parse_value(input, pos)
  IN IF ~item.ok
       THEN \* glyph_value_free(list); return NULL;
            [ok |-> FALSE, val |-> NULLPTR, pos |-> item.pos,
             leak |-> item.leak \o Unreleased(<<"list">>, <<"list">>)]
     ELSE LET list2 == glyph_list_append(list, item.val)
              c == peek(input, item.pos)
          IN IF c.c = Ord("]")
               THEN [ok |-> TRUE, val |-> list2, pos |-> next(input, c.pos).pos,
                     leak |-> item.leak]
             ELSE IF c.c # Ord(",")
               THEN \* glyph_value_free(list); return NULL;
                    [ok |-> FALSE, val |-> NULLPTR, pos |-> c.pos,
                     leak |-> item.leak \o Unreleased(<<"list">>, <<"list">>)]
             ELSE LET rest == parse_array_loop(input, next(input, c.pos).pos, list2)
                  IN [rest EXCEPT !.leak = item.leak \o @]

parse_array(input, pos) ==
  LET n == next(input, pos)
      c == peek(input, n.pos)
  IN IF n.c # Ord("[") THEN Fail(n.pos)
     ELSE IF c.c = Ord("]") THEN Parsed(glyph_list_new, next(input, c.pos).pos)
     ELSE parse_array_loop(input, n.pos, glyph_list_new)

\* The while (1) loop of parse_object.  map holds the entries set so far.
parse_object_loop(input, pos, map) ==
  LET q == peek(input, pos)
      key == parse_string(input, q.pos)
      colon == next(input, key.pos)
      value == parse_value(input, colon.pos)
  IN IF q.c # Ord("\"")
       THEN \* glyph_value_free(map); return NULL;
            [ok |-> FALSE, val |-> NULLPTR, pos |-> q.pos,
             leak |-> Unreleased(<<"map">>, <<"map">>)]
     ELSE IF ~key.ok
       THEN [ok |-> FALSE, val |-> NULLPTR, pos |-> key.pos,
             leak |-> Unreleased(<<"map">>, <<"map">>)]
     ELSE IF colon.c # Ord(":")
       THEN \* free(key); glyph_value_free(map); return NULL;
            [ok |-> FALSE, val |-> NULLPTR, pos |-> colon.pos,
             leak |-> Unreleased(<<"key", "map">>, <<"key", "map">>)]
     ELSE IF ~value.ok
       THEN [ok |-> FALSE, val |-> NULLPTR, pos |-> value.pos,
             leak |-> value.leak \o Unreleased(<<"key", "map">>, <<"key", "map">>)]
     ELSE LET map2 == glyph_map_set(map, StrPtr(CStr(key.str)), value.val)
              \* glyph_map_set copies the key; free(key);
              mine == value.leak \o Unreleased(<<"key">>, <<"key">>)
              c == peek(input, value.pos)
          IN IF c.c = Ord("}")
               THEN [ok |-> TRUE, val |-> map2, pos |-> next(input, c.pos).pos,
                     leak |-> mine]
             ELSE IF c.c # Ord(",")
               THEN [ok |-> FALSE, val |-> NULLPTR, pos |-> c.pos,
                     leak |-> mine \o Unreleased(<<"map">>, <<"map">>)]
             ELSE LET rest == parse_object_loop(input, next(input, c.pos).pos, map2)
                  IN [rest EXCEPT !.leak = mine \o @]

parse_object(input, pos) ==
  LET n == next(input, pos)
      c == peek(input, n.pos)
  IN IF n.c # Ord("{") THEN Fail(n.pos)
     ELSE IF c.c = Ord("}") THEN Parsed(glyph_map_new, next(input, c.pos).pos)
     ELSE parse_object_loop(input, n.pos, glyph_map_new)

parse_value(input, pos) ==
  LET c == peek(input, pos)
      m_null == match(input, c.pos, B(<<"n", "u", "l", "l">>))
      m_true == match(input, c.pos, B(<<"t", "r", "u", "e">>))
      m_false == match(input, c.pos, B(<<"f", "a", "l", "s", "e">>))
  IN IF c.c = Ord("n") /\ m_null.ok THEN Parsed(glyph_null, m_null.pos)
     ELSE IF c.c = Ord("t") /\ m_true.ok THEN Parsed(glyph_bool(TRUE), m_true.pos)
     ELSE IF c.c = Ord("f") /\ m_false.ok THEN Parsed(glyph_bool(FALSE), m_false.pos)
     ELSE IF c.c = Ord("\"")
       THEN LET s == parse_string(input, c.pos)
            IN IF ~s.ok THEN Fail(s.pos)
               ELSE \* v = glyph_str(s) copies the text; free(s);
                    [ok |-> TRUE, val |-> glyph_str(CStr(s.str)), pos |-> s.pos,
                     leak |-> Unreleased(<<"s">>, <<"s">>)]
     ELSE IF c.c = Ord("[") THEN parse_array(input, c.pos)
     ELSE IF c.c = Ord("{") THEN parse_object(input, c.pos)
     ELSE IF c.c = Ord("-") \/ isdigit(c.c)
       THEN LET n == parse_number(input, c.pos)
            IN [ok |-> n.ok, val |-> n.val, pos |-> n.pos, leak |-> <<>>]
     ELSE Fail(c.pos)

\* glyph_from_json of a non-NULL C string: the value, or NULLPTR.
glyph_from_json(json) == parse_value(json, 0).val

\* The blocks a glyph_from_json call allocated and neither returned nor freed.
glyph_from_json_leak(json) == parse_value(json, 0).leak

(***************************************************************************)
(* glyph_hash_loose (json.c).  An unsigned long of 64 bits is four limbs   *)
(* of 16 bits, least significant first.                                    *)
(***************************************************************************)

LIMB == 65536
HASH_SEED == <<5381, 0, 0, 0>>

\* hash = ((hash << 5) + hash) + c, modulo 2^64: the carry out of the last
\* limb is dropped.
RECURSIVE hash_step_from(_, _, _)
hash_step_from(hash, i, carry) ==
  IF i > Len(hash) THEN <<>>
  ELSE LET t == hash[i] * 33 + carry
       IN <<t % LIMB>> \o hash_step_from(hash, i + 1, t \div LIMB)

hash_step(hash, c) == hash_step_from(hash, 1, c)

\* The for loop over the canonical text.
RECURSIVE hash_loop(_, _)
hash_loop(hash, text) ==
  IF text = <<>> THEN hash
  ELSE LET h == hash_step(hash, Head(text))
           rest == Tail(text)
       IN \* (the test makes TLC evaluate h and rest before the next round)
          IF Len(h) = Len(hash) /\ Len(rest) < Len(text) THEN hash_loop(h, rest) ELSE h

\* snprintf(result, 17, "%016lx", hash)
HexLimb(n) ==
  <<HexDigit(n \div 4096), HexDigit((n \div 256) % 16), HexDigit((n \div 16) % 16),
    HexDigit(n % 16)>>

FmtHex16(hash) == HexLimb(hash[4]) \o HexLimb(hash[3]) \o HexLimb(hash[2]) \o HexLimb(hash[1])

glyph_hash_loose(v, env) == FmtHex16(hash_loop(HASH_SEED, glyph_canonicalize_loose(v, env)))

(***************************************************************************)
(* The host program.  It assembles one value tree in root, preparing each  *)
(* child in kid before handing it over to root (the appenders take         *)
(* ownership), and calls the codec on what it has built.  call records     *)
(* the last codec call and what it returned.                               *)
(***************************************************************************)
VARIABLES root, kid, call

vars == <<root, kid, call>>

\* Bounds of the model.
MaxRows == 3
MaxRootFields == 2
MaxFields == 2

NoCall == [op |-> "none"]

Int1 == glyph_int([neg |-> FALSE, mag |-> <<1>>])

\* Keys and leaves the host uses when it fills containers.
Keys == {B(<<"x">>), B(<<"y">>)}
Leaves == {Int1}
TypeNames == {B(<<"T">>)}

\* What a codec call finds besides its arguments: how qsort breaks ties, and
\* the order in which the addresses of successive allocations compare.
Ties == {"stable", "reverse"}
Heaps == {h \in [1..Cardinality(Keys) -> 1..Cardinality(Keys)] :
            \A i, j \in DOMAIN h : h[i] = h[j] => i = j}
Envs == [ties : Ties, heap : Heaps]

OptsPresets ==
  { glyph_canon_opts_default, glyph_canon_opts_llm, glyph_canon_opts_pretty,
    glyph_canon_opts_no_tabular }

OptsInputs ==
  OptsPresets
    \cup { [glyph_canon_opts_default EXCEPT !.allow_missing = FALSE],
           [glyph_canon_opts_default EXCEPT !.min_rows = 2],
           [glyph_canon_opts_default EXCEPT !.max_cols = 1],
           [glyph_canon_opts_no_tabular EXCEPT !.min_rows = 2] }

IsContainer(v) == v.type \in {"list", "map", "struct"}

Width(v) ==
  IF v.type = "list" THEN Len(v.items)
  ELSE IF v.type = "map" THEN Len(v.entries)
  ELSE IF v.type = "struct" THEN Len(v.fields)
  ELSE 0

Init ==
  /\ root = NULLPTR
  /\ kid = NULLPTR
  /\ call = NoCall

\* root = glyph_list_new() / glyph_map_new() / glyph_struct_new(t) / a scalar.
NewRoot(v) ==
  /\ root = NULLPTR
  /\ root' = v
  /\ call' = NoCall
  /\ UNCHANGED kid

\* kid = a freshly constructed child, while root still has room for it.
NewKid(v, maxRows, maxRootFields) ==
  /\ root # NULLPTR /\ IsContainer(root)
  /\ kid = NULLPTR
  /\ Width(root) < (IF root.type = "list" THEN maxRows ELSE maxRootFields)
  /\ kid' = v
  /\ call' = NoCall
  /\ UNCHANGED root

\* glyph_list_append(kid, leaf)
KidAppend(leaf, maxFields) ==
  /\ kid # NULLPTR /\ kid.type = "list" /\ Width(kid) < maxFields
  /\ kid' = glyph_list_append(kid, leaf)
  /\ call' = NoCall
  /\ UNCHANGED root

\* glyph_map_set(kid, key, leaf)
KidMapSet(key, leaf, maxFields) ==
  /\ kid # NULLPTR /\ kid.type = "map" /\ Width(kid) < maxFields
  /\ kid' = glyph_map_set(kid, StrPtr(key), leaf)
  /\ call' = NoCall
  /\ UNCHANGED root

\* glyph_struct_set(kid, key, leaf)
KidStructSet(key, leaf, maxFields) ==
  /\ kid # NULLPTR /\ kid.type = "struct" /\ Width(kid) < maxFields
  /\ kid' = glyph_struct_set(kid, StrPtr(key), leaf)
  /\ call' = NoCall
  /\ UNCHANGED root

\* glyph_list_append(root, kid): root owns the child from here on.
ListAppend ==
  /\ root # NULLPTR /\ root.type = "list" /\ kid # NULLPTR
  /\ root' = glyph_list_append(root, kid)
  /\ kid' = NULLPTR
  /\ call' = NoCall

\* glyph_map_set(root, key, kid)
MapSet(key) ==
  /\ root # NULLPTR /\ root.type = "map" /\ kid # NULLPTR
  /\ root' = glyph_map_set(root, StrPtr(key), kid)
  /\ kid' = NULLPTR
  /\ call' = NoCall

\* glyph_struct_set(root, key, kid)
StructSet(key) ==
  /\ root # NULLPTR /\ root.type = "struct" /\ kid # NULLPTR
  /\ root' = glyph_struct_set(root, StrPtr(key), kid)
  /\ kid' = NULLPTR
  /\ call' = NoCall

\* out = glyph_canonicalize_loose_with_opts(root, &opts), run in env.
Canonicalize(opts, env) ==
  /\ root # NULLPTR /\ kid = NULLPTR
  /\ call' = [op |-> "canonicalize", opts |-> opts,
              out |-> glyph_canonicalize_loose_with_opts(root, opts, env),
              unreleased |-> canon_unreleased(root, opts, env)]
  /\ root' = value_after_write(root, opts, env)
  /\ UNCHANGED kid

\* eq = glyph_equal_loose(root, b): its two canonicalize calls run on the
\* heaps ha and hb.
EqualLoose(b, t, ha, hb) ==
  /\ root # NULLPTR
  /\ call' = [op |-> "equal_loose", b |-> b, eq |-> glyph_equal_loose(root, b, t, ha, hb)]
  /\ root' = value_after_write(root, glyph_canon_opts_default, [ties |-> t, heap |-> ha])
  /\ UNCHANGED kid

\* json = glyph_to_json(root)
ToJson ==
  /\ root # NULLPTR /\ kid = NULLPTR
  /\ call' = [op |-> "to_json", json |-> glyph_to_json(root)]
  /\ UNCHANGED <<root, kid>>

\* v2 = glyph_from_json(json), of the text the last call returned.
FromJson ==
  /\ call.op = "to_json"
  /\ call' = [op |-> "from_json", json |-> call.json, v2 |-> glyph_from_json(call.json)]
  /\ UNCHANGED <<root, kid>>

\* eq = glyph_equal_loose(root, v2), of the value the last call parsed: the
\* round trip of test_json_roundtrip.
EqualRoundTrip(t, ha, hb) ==
  /\ call.op = "from_json"
  /\ call' = [op |-> "roundtrip_equal", json |-> call.json, v2 |-> call.v2,
              eq |-> glyph_equal_loose(root, call.v2, t, ha, hb)]
  /\ root' = value_after_write(root, glyph_canon_opts_default, [ties |-> t, heap |-> ha])
  /\ UNCHANGED kid

(***************************************************************************)
(* Spec: the host builds lists, maps and structs of JSON-like children     *)
(* (scalars, lists, maps) and canonicalizes, compares and round-trips      *)
(* them through JSON.                                                      *)
(***************************************************************************)

RootSeeds ==
  {glyph_list_new, glyph_map_new} \cup {glyph_struct_new(t) : t \in TypeNames}

KidSeeds == Leaves \cup {glyph_list_new, glyph_map_new}

Next ==
  \/ \E v \in RootSeeds : NewRoot(v)
  \/ \E v \in KidSeeds : NewKid(v, MaxRows, MaxRootFields)
  \/ \E leaf \in Leaves : KidAppend(leaf, MaxFields)
  \/ \E key \in Keys, leaf \in Leaves : KidMapSet(key, leaf, MaxFields)
  \/ ListAppend
  \/ \E key \in Keys : MapSet(key)
  \/ \E key \in Keys : StructSet(key)
  \/ \E opts \in OptsPresets, env \in Envs : Canonicalize(opts, env)
  \/ \E t \in Ties, ha, hb \in Heaps : EqualLoose(root, t, ha, hb)
  \/ \E t \in Ties, ha, hb \in Heaps : kid # NULLPTR /\ EqualLoose(kid, t, ha, hb)
  \/ ToJson
  \/ FromJson
  \/ \E t \in Ties, ha, hb \in Heaps : EqualRoundTrip(t, ha, hb)

Spec == Init /\ [][Next]_vars

(***************************************************************************)
(* SpecTab: the host builds a list of rows (maps, structs, scalars) and    *)
(* canonicalizes it under a range of options.                              *)
(***************************************************************************)

TabKidSeeds == Leaves \cup {glyph_map_new} \cup {glyph_struct_new(t) : t \in TypeNames}

\* The item with the same fields as a Map, or as a Struct named U.
RetypedItems(item) ==
  { [type |-> "map", entries |-> item.fields],
    [type |-> "struct", type_name |-> B(<<"U">>), fields |-> item.fields] }

\* The lists that are v except at one index, where v holds a Struct with a
\* non-empty type name and they hold that Struct retyped.
Retyped(v) ==
  IF v.type # "list" THEN {}
  ELSE UNION { { [v EXCEPT !.items[i] = w] : w \in RetypedItems(v.items[i]) } :
                 i \in {k \in 1..Len(v.items) :
                          /\ v.items[k].type = "struct"
                          /\ v.items[k].type_name # <<>>} }

NextTab ==
  \/ NewRoot(glyph_list_new)
  \/ \E v \in TabKidSeeds : NewKid(v, MaxRows, MaxRootFields)
  \/ \E key \in Keys, leaf \in Leaves : KidMapSet(key, leaf, MaxFields)
  \/ \E key \in Keys, leaf \in Leaves : KidStructSet(key, leaf, MaxFields)
  \/ ListAppend
  \/ \E opts \in OptsInputs, env \in Envs : Canonicalize(opts, env)

SpecTab == Init /\ [][NextTab]_vars

(***************************************************************************)
(* SpecRetype: the host builds a list of rows (maps, structs, scalars) and *)
(* compares it with the list that has one Struct row retyped.              *)
(***************************************************************************)

NextRetype ==
  \/ NewRoot(glyph_list_new)
  \/ \E v \in TabKidSeeds : NewKid(v, MaxRows, MaxRootFields)
  \/ \E key \in Keys, leaf \in Leaves : KidMapSet(key, leaf, MaxFields)
  \/ \E key \in Keys, leaf \in Leaves : KidStructSet(key, leaf, MaxFields)
  \/ ListAppend
  \/ \E b \in Retyped(root), t \in Ties, ha, hb \in Heaps :
        kid = NULLPTR /\ EqualLoose(b, t, ha, hb)

SpecRetype == Init /\ [][NextRetype]_vars

(***************************************************************************)
(* SpecScalar: the host obtains one number, one string, or one object      *)
(* keyed by a string, and canonicalizes and compares it.                   *)
(***************************************************************************)

\* Bounds of the inputs.
MaxStrLen == 2
MaxPow == 16

\* Bytes the input strings are made of: a letter of each case, the letters
\* of the one-letter reserved words, each punctuation byte the classifier
\* names, a digit, both quotes, a space, a control byte, DEL, and a byte
\* above 0x7F.
StrAlphabet ==
  { Ord("a"), Ord("Z"), Ord("t"), Ord("f"), Ord("_"), Ord("-"), Ord("."), Ord("/"),
    Ord("@"), Ord(":"), Ord("0"), Ord("\""), Ord("'"), Ord(" "), NL, 127, 128 }

StrWords ==
  { B(<<"t", "r", "u", "e">>), B(<<"f", "a", "l", "s", "e">>), B(<<"n", "u", "l", "l">>),
    B(<<"t", "r", "u">>), B(<<"T", "r", "u", "e">>), B(<<"n", "u", "l", "l", "s">>),
    B(<<"a", " ", "b">>), B(<<"a", "=", "b">>), B(<<"x", "9", "_">>) }

StrInputs == UNION {[1..k -> StrAlphabet] : k \in 0..MaxStrLen} \cup StrWords

Pow10(k) == <<1>> \o Zeros(k)
Nines(k) == [i \in 1..k |-> 9]
Pow10Plus1(k) == <<1>> \o Zeros(k - 1) \o <<1>>

\* Magnitudes of whole numbers that are both an int64 and (exactly) a double:
\* 0, the powers of ten, and their neighbours up to fifteen digits.
WholeMags ==
  {<<0>>, <<4, 2>>}
    \cup {Pow10(k) : k \in 0..MaxPow}
    \cup {Nines(k) : k \in 1..G_PRECISION}
    \cup {Pow10Plus1(k) : k \in 1..G_PRECISION}

IntInputs ==
  {glyph_int([neg |-> n, mag |-> m]) : n \in BOOLEAN, m \in WholeMags}
    \ {glyph_int([neg |-> TRUE, mag |-> <<0>>])}

\* Doubles with a fraction: binary fractions around 0, 1, 10^14 and 10^15.
FractionInputs ==
  {glyph_float([neg |-> n, ip |-> i, fp |-> f]) :
     n \in BOOLEAN, i \in {<<0>>, <<1>>, Nines(G_PRECISION - 1), Nines(G_PRECISION)},
     f \in {<<5>>, <<2, 5>>}}

FloatInputs ==
  {glyph_float([neg |-> n, ip |-> m, fp |-> <<>>]) : n \in BOOLEAN, m \in WholeMags}
    \cup FractionInputs

\* One-entry objects keyed by s, and a one-row list of such a map.
KeyedInputs ==
  UNION {{ glyph_map_set(glyph_map_new, StrPtr(s), Int1),
           glyph_struct_set(glyph_struct_new(B(<<"T">>)), StrPtr(s), Int1),
           glyph_list_append(glyph_list_new, glyph_map_set(glyph_map_new, StrPtr(s), Int1)) }
         : s \in StrInputs}

ScalarInputs ==
  IntInputs \cup FloatInputs \cup {glyph_str(s) : s \in StrInputs} \cup KeyedInputs

\* The values the host compares v with: an Int with the Float of the same
\* number and back; anything else with itself.
Twins(v) ==
  IF v.type = "float" /\ IsWhole(v.float_val)
    THEN {glyph_int([neg |-> v.float_val.neg /\ ~AllZero(v.float_val.ip),
                     mag |-> v.float_val.ip])}
  ELSE IF v.type = "int"
    THEN {glyph_float([neg |-> n, ip |-> v.int_val.mag, fp |-> <<>>]) :
            n \in (IF AllZero(v.int_val.mag) THEN BOOLEAN ELSE {v.int_val.neg})}
  ELSE {v}

OneRowOpts ==
  {glyph_canon_opts_default, [glyph_canon_opts_default EXCEPT !.min_rows = 1]}

NextScalar ==
  \/ \E v \in ScalarInputs : NewRoot(v)
  \/ \E opts \in OneRowOpts, env \in Envs : Canonicalize(opts, env)
  \/ \E b \in Twins(root), t \in Ties, ha, hb \in Heaps : EqualLoose(b, t, ha, hb)

SpecScalar == Init /\ [][NextScalar]_vars

(***************************************************************************)
(* SpecNest: the host builds a list of maps and scalars, may wrap what it  *)
(* has built into a new list, map or struct, and canonicalizes it.         *)
(***************************************************************************)

MaxDepth == 3

RECURSIVE Depth(_)
Depth(v) ==
  LET kids == IF v.type = "list" THEN v.items
              ELSE [i \in 1..Len(EntriesOf(v)) |-> EntriesOf(v)[i].value]
      below == {Depth(kids[i]) : i \in 1..Len(kids)}
  IN IF ~IsContainer(v) THEN 0
     ELSE IF kids = <<>> THEN 1
     ELSE 1 + (CHOOSE d \in below : \A e \in below : e <= d)

\* root = a new container holding the old root as its only child:
\* glyph_list_append(glyph_list_new(), root), glyph_map_set(glyph_map_new(),
\* key, root) or glyph_struct_set(glyph_struct_new(t), key, root).
Wrap(outer, key) ==
  /\ root # NULLPTR /\ kid = NULLPTR
  /\ Depth(root) < MaxDepth
  /\ root' = (IF outer.type = "list" THEN glyph_list_append(outer, root)
              ELSE IF outer.type = "map" THEN glyph_map_set(outer, StrPtr(key), root)
              ELSE glyph_struct_set(outer, StrPtr(key), root))
  /\ call' = NoCall
  /\ UNCHANGED kid

NestKidSeeds == Leaves \cup {glyph_map_new}

NextNest ==
  \/ NewRoot(glyph_list_new)
  \/ \E v \in NestKidSeeds : Depth(root) < MaxDepth /\ NewKid(v, MaxRows, MaxRootFields)
  \/ \E key \in Keys, leaf \in Leaves : KidMapSet(key, leaf, MaxFields)
  \/ ListAppend
  \/ \E outer \in RootSeeds, key \in Keys : Wrap(outer, key)
  \/ \E opts \in OptsPresets, env \in Envs : Canonicalize(opts, env)

SpecNest == Init /\ [][NextNest]_vars

(***************************************************************************)
(* SpecJson: the host parses a JSON text, well-formed or broken, and       *)
(* encodes the value it got.                                               *)
(***************************************************************************)

\* Well-formed texts: nested arrays and objects, each literal name, strings
\* (one with an escape), blanks between tokens, objects with a repeated key.
JsonDocs ==
  { B(<<"[", "1", ",", "[", "t", "r", "u", "e", ",", "{", "\"", "k", "\"", ":", "n", "u",
            "l", "l", "}", "]", ",", "\"", "w", "\"", "]">>),
    B(<<"{", "\"", "k", "\"", ":", "[", "1", ",", "2", "]", ",", "\"", "q", "\"", ":",
            "{", "\"", "w", "\"", ":", "\"", "x", "y", "\"", "}", "}">>),
    B(<<"[", "[", "]", ",", "{", "}", "]">>),
    B(<<"{", "\"", "k", "\"", ":", "f", "a", "l", "s", "e", "}">>),
    B(<<" ", "[", " ", "1", " ", ",", " ", "\"", "x", "\\", "\"", "y", "\"", " ", "]">>),
    B(<<"n", "u", "l", "l">>),
    B(<<"t", "r", "u", "e">>),
    B(<<"\"", "k", "q", "\"">>),
    B(<<"{", "\"", "k", "\"", ":", "1", ",", "\"", "k", "\"", ":", "2", "}">>),
    B(<<"[", "{", "\"", "k", "\"", ":", "1", ",", "\"", "q", "\"", ":", "2", ",", "\"",
            "k", "\"", ":", "3", "}", "]">>),
    B(<<"[", "{", "\"", "x", "\"", ":", "1", ",", "\"", "y", "\"", ":", "2", "}", ",",
        "{", "\"", "y", "\"", ":", "2", ",", "\"", "x", "\"", ":", "1", "}", ",",
        "{", "\"", "x", "\"", ":", "1", ",", "\"", "y", "\"", ":", "2", "}", "]">>) }

\* Texts with an object key that is not a string, and with unknown names.
BadKeyTexts ==
  { B(<<"{", "1", ":", "2", "}">>),
    B(<<"[", "{", "\"", "k", "\"", ":", "1", ",", "n", "u", "l", "l", ":", "2", "}", "]">>),
    B(<<"{", "\"", "k", "\"", ":", "{", "[", "]", ":", "1", "}", "}">>),
    B(<<"n", "i", "l">>),
    B(<<"T", "r", "u", "e">>),
    B(<<"[", "1", ",", "[", "N", "u", "l", "l", "]", "]">>),
    B(<<"{", "\"", "k", "\"", ":", "u", "n", "d", "e", "f", "i", "n", "e", "d", "}">>) }

ReplaceAt(d, i, c) == [d EXCEPT ![i] = c]
InsertAt(d, i, c) == SubSeq(d, 1, i - 1) \o <<c>> \o SubSeq(d, i, Len(d))
DropAt(d, i) == SubSeq(d, 1, i - 1) \o SubSeq(d, i + 1, Len(d))

\* Every proper prefix of a well-formed text (none of them is well-formed:
\* no text of JsonDocs is a number or ends with a blank).
Truncations == UNION {{SubSeq(d, 1, k) : k \in 0..(Len(d) - 1)} : d \in JsonDocs}

\* A ',' or a ':' replaced by a blank.
MissingSeparators ==
  UNION {{ReplaceAt(d, i, 32) : i \in {j \in 1..Len(d) : d[j] \in {44, 58}}} : d \in JsonDocs}

\* A ',' put before a ']' or a '}'.
TrailingCommas ==
  UNION {{InsertAt(d, i, 44) : i \in {j \in 1..Len(d) : d[j] \in {93, 125}}} : d \in JsonDocs}

\* One letter of a literal name left out (the strings of JsonDocs hold none
\* of these letters).
BrokenNames ==
  UNION {{DropAt(d, i) : i \in {j \in 1..Len(d) :
             d[j] \in {Ord("n"), Ord("u"), Ord("l"), Ord("t"), Ord("r"), Ord("e"),
                       Ord("f"), Ord("a"), Ord("s")}}} : d \in JsonDocs}

\* A one-letter key without its quotes.
BareKeys ==
  UNION {{DropAt(DropAt(d, i + 2), i) :
            i \in {j \in 1..(Len(d) - 3) : d[j] = 34 /\ d[j + 2] = 34 /\ d[j + 3] = 58}}
         : d \in JsonDocs}

BrokenTexts ==
  Truncations \cup MissingSeparators \cup TrailingCommas \cup BrokenNames \cup BareKeys
    \cup BadKeyTexts

JsonTexts == JsonDocs \cup BrokenTexts

\* root = glyph_from_json(json)
ParseText(json) ==
  /\ root = NULLPTR /\ call = NoCall
  /\ root' = glyph_from_json(json)
  /\ call' = [op |-> "from_json_text", json |-> json, leak |-> glyph_from_json_leak(json)]
  /\ UNCHANGED kid

\* hash = glyph_hash_loose(root), run in env.
HashLoose(env) ==
  /\ root # NULLPTR /\ kid = NULLPTR
  /\ call' = [op |-> "hash_loose", hash |-> glyph_hash_loose(root, env)]
  /\ root' = value_after_write(root, glyph_canon_opts_default, env)
  /\ UNCHANGED kid

NextJson ==
  \/ \E json \in JsonTexts : ParseText(json)
  \/ \E env \in Envs : Canonicalize(glyph_canon_opts_default, env)
  \/ \E env \in Envs : HashLoose(env)
  \/ ToJson

SpecJson == Init /\ [][NextJson]_vars

(***************************************************************************)
(* SpecParse: one glyph_from_json call, step by step.  The call record     *)
(* holds the parser (input, pos), the C call stack as a sequence of frames *)
(* (the innermost last), the value the last return handed back, and what   *)
(* the last step read from the input and wrote to the string buffer.  A    *)
(* frame is one activation of parse_value, parse_string, parse_array or    *)
(* parse_object with its locals and the point it resumes at.  The stack    *)
(* has room for MaxStack frames; the code has no depth check, so a call    *)
(* made with the stack full faults.                                        *)
(***************************************************************************)

MaxStack == 8

INITIAL_STR_CAP == 64

\* The check growing the buffer only once the bytes no longer fit.
GrowCap_when_full(len, n, cap) == IF len + n > cap THEN cap * 2 ELSE cap

\* if (len + n >= cap) cap *= 2: the capacity after the check.
GrowCap(len, n, cap) == IF len + n >= cap THEN cap * 2 ELSE cap

Top(P) == P.stack[Len(P.stack)]

\* The indices skip_whitespace reads from pos: every one it tests.
WsReads(input, pos) == {i \in pos..skip_whitespace(input, pos) : i < Len(input)}

\* What every step starts from: nothing read or written yet, one more step.
Stepping(P) ==
  [P EXCEPT !.pos0 = P.pos, !.steps = @ + 1, !.reads = {}, !.writes = <<>>,
            !.ret = NULLPTR]

\* return val with the cursor at pos; the outermost return ends the call.
Return(P, val, pos) ==
  [P EXCEPT !.stack = SubSeq(@, 1, Len(@) - 1), !.ret = val, !.pos = pos,
            !.status = IF Len(P.stack) = 1 THEN "done" ELSE "running"]

\* The running function moves to frame top and calls the function of frame
\* callee, with the cursor at pos.
Invoke(P, top, callee, pos) ==
  IF Len(P.stack) >= MaxStack THEN [P EXCEPT !.status = "fault", !.pos = pos]
  ELSE [P EXCEPT !.stack = SubSeq(@, 1, Len(@) - 1) \o <<top, callee>>, !.pos = pos]

ValueFrame == [fn |-> "parse_value", pc |-> "enter"]
StringFrame == [fn |-> "parse_string", pc |-> "open", str |-> <<>>, cap |-> 0]
ArrayFrame == [fn |-> "parse_array", pc |-> "open", list |-> NULLPTR]
ObjectFrame == [fn |-> "parse_object", pc |-> "open", map |-> NULLPTR, key |-> <<>>]

\* parse_value up to its call or return, and its return of what a callee
\* handed back.
StepValue(P0) ==
  LET P == Stepping(P0)
      input == P.input
      c == peek(input, P.pos)
      seen == [P EXCEPT !.reads = WsReads(input, P.pos)]
      word == IF c.c = Ord("n") THEN B(<<"n", "u", "l", "l">>)
              ELSE IF c.c = Ord("t") THEN B(<<"t", "r", "u", "e">>)
              ELSE B(<<"f", "a", "l", "s", "e">>)
      m == match(input, c.pos, word)
      n == parse_number(input, c.pos)
  IN IF Top(P0).pc = "callee" THEN Return([P EXCEPT !.ret = P0.ret], P0.ret, P.pos)
     ELSE IF c.c \in {Ord("n"), Ord("t"), Ord("f")}
       THEN IF m.ok
              THEN Return([seen EXCEPT !.reads = @ \cup (c.pos..(m.pos - 1))],
                          IF c.c = Ord("n") THEN glyph_null ELSE glyph_bool(c.c = Ord("t")),
                          m.pos)
            ELSE Return([seen EXCEPT !.reads =
                           @ \cup {i \in c.pos..(c.pos + Len(word) - 1) :
                                     c.pos + Len(word) <= Len(input)}],
                        NULLPTR, c.pos)
     ELSE IF c.c = Ord("\"")
       THEN Invoke(seen, [ValueFrame EXCEPT !.pc = "callee"], StringFrame, c.pos)
     ELSE IF c.c = Ord("[")
       THEN Invoke(seen, [ValueFrame EXCEPT !.pc = "callee"], ArrayFrame, c.pos)
     ELSE IF c.c = Ord("{")
       THEN Invoke(seen, [ValueFrame EXCEPT !.pc = "callee"], ObjectFrame, c.pos)
     ELSE IF c.c = Ord("-") \/ isdigit(c.c)
       THEN \* strtoll and strtod read up to and including the byte they stop at
            Return([seen EXCEPT !.reads = @ \cup (c.pos..strtoll(input, c.pos).end)
                                            \cup (c.pos..n.pos),
                                !.scan = TRUE],
                   n.val, n.pos)
     ELSE Return(seen, NULLPTR, c.pos)

\* The bytes one backslash escape stores, with the escape character at
\* index p1: [bytes, pos, reads, need], need being the room the switch arm
\* asks for before it stores the leading bytes itself (0 when it stores
\* none).
EscapeAt(input, p1) ==
  LET e == input[p1 + 1]
      p2 == p1 + 1
      code == strtoul16(SubSeq(input, p2 + 1, p2 + 4), 0)
  IN IF e = Ord("u") /\ p2 + 4 <= Len(input)
       THEN [bytes |-> Utf8(code), pos |-> p2 + 4, reads |-> p1..(p2 + 3),
             need |-> IF code < 128 THEN 0 ELSE Len(Utf8(code))]
     ELSE [bytes |-> <<IF e = Ord("n") THEN NL ELSE IF e = Ord("r") THEN CR
                       ELSE IF e = Ord("t") THEN TAB ELSE e>>,
           pos |-> p2, reads |-> {p1}, need |-> 0]

\* parse_string: its entry up to the malloc, or one iteration of its loop.
\* A write is recorded as the index stored to and the capacity at the time.
StepString(P0) ==
  LET P == Stepping(P0)
      input == P.input
      f == Top(P)
      n == next(input, P.pos)
      c == input[P.pos + 1]
      p1 == P.pos + 1
      esc == c = Ord("\\") /\ p1 < Len(input)
      x == IF esc THEN EscapeAt(input, p1)
           ELSE [bytes |-> <<c>>, pos |-> p1, reads |-> {}, need |-> 0]
      len == Len(f.str)
      lead == Len(x.bytes) - 1
      cap1 == IF x.need > 0 THEN GrowCap(len, x.need, f.cap) ELSE f.cap
      cap2 == GrowCap(len + lead, 1, cap1)
  IN IF f.pc = "open"
       THEN LET seen == [P EXCEPT !.reads = WsReads(input, P.pos)
                                             \cup {i \in {n.pos - 1} : n.pos > P.pos}]
            IN IF n.c # Ord("\"") THEN Return(seen, NULLPTR, n.pos)
               ELSE [seen EXCEPT !.stack[Len(P.stack)] =
                                   [f EXCEPT !.pc = "loop", !.cap = INITIAL_STR_CAP],
                                 !.pos = n.pos]
     ELSE IF P.pos >= Len(input) THEN Return(P, NULLPTR, P.pos)
     ELSE IF c = Ord("\"")
       THEN Return([P EXCEPT !.reads = {P.pos},
                             !.writes = <<[at |-> len, cap |-> f.cap]>>],
                   glyph_str(CStr(f.str)), p1)
     ELSE [P EXCEPT !.stack[Len(P.stack)] = [f EXCEPT !.str = @ \o x.bytes, !.cap = cap2],
                    !.pos = x.pos,
                    !.reads = {P.pos} \cup x.reads,
                    !.writes = [k \in 1..lead |-> [at |-> len + k - 1, cap |-> cap1]]
                                 \o <<[at |-> len + lead, cap |-> cap2]>>]

\* After an item or an entry: the container is complete at its closing
\* bracket, another child follows a comma, anything else is an error.
AfterChild(input, pos, close) ==
  LET c == peek(input, pos)
  IN [closed |-> c.c = close, more |-> c.c = Ord(","),
      pos |-> IF c.c = close \/ c.c = Ord(",") THEN next(input, c.pos).pos ELSE c.pos,
      reads |-> WsReads(input, pos)]

\* parse_array: its entry up to the first parse_value call, or from the
\* return of one parse_value call to the next.
StepArray(P0) ==
  LET P == Stepping(P0)
      input == P.input
      f == Top(P)
      n == next(input, P.pos)
      c == peek(input, n.pos)
      a == AfterChild(input, P.pos, Ord("]"))
      list2 == glyph_list_append(f.list, P0.ret)
  IN IF f.pc = "open"
       THEN LET seen == [P EXCEPT !.reads = WsReads(input, P.pos) \cup WsReads(input, n.pos)]
            IN IF n.c # Ord("[") THEN Return(seen, NULLPTR, n.pos)
               ELSE IF c.c = Ord("]")
                 THEN Return(seen, glyph_list_new, next(input, c.pos).pos)
               ELSE Invoke(seen, [f EXCEPT !.pc = "item", !.list = glyph_list_new],
                           ValueFrame, c.pos)
     ELSE IF P0.ret = NULLPTR THEN Return(P, NULLPTR, P.pos)
     ELSE LET seen == [P EXCEPT !.reads = a.reads]
          IN IF a.closed THEN Return(seen, list2, a.pos)
             ELSE IF ~a.more THEN Return(seen, NULLPTR, a.pos)
             ELSE Invoke(seen, [f EXCEPT !.list = list2], ValueFrame, a.pos)

\* The head of the loop of parse_object, with the cursor at pos and the
\* entries set so far in map: the key's parse_string call, or the error
\* return when no quote follows.
ObjectLoopHead(P, map, pos) ==
  LET q == peek(P.input, pos)
      seen == [P EXCEPT !.reads = @ \cup WsReads(P.input, pos)]
  IN IF q.c # Ord("\"") THEN Return(seen, NULLPTR, q.pos)
     ELSE Invoke(seen, [ObjectFrame EXCEPT !.pc = "key", !.map = map], StringFrame, q.pos)

\* parse_object: its entry up to the key's parse_string call, from there
\* to the value's parse_value call, and from there to the next key.
StepObject(P0) ==
  LET P == Stepping(P0)
      input == P.input
      f == Top(P)
      n == next(input, P.pos)
      c == peek(input, n.pos)
      colon == next(input, P.pos)
      a == AfterChild(input, P.pos, Ord("}"))
      map2 == glyph_map_set(f.map, StrPtr(f.key), P0.ret)
  IN IF f.pc = "open"
       THEN LET seen == [P EXCEPT !.reads = WsReads(input, P.pos) \cup WsReads(input, n.pos)]
            IN IF n.c # Ord("{") THEN Return(seen, NULLPTR, n.pos)
               ELSE IF c.c = Ord("}")
                 THEN Return(seen, glyph_map_new, next(input, c.pos).pos)
               ELSE ObjectLoopHead(seen, glyph_map_new, c.pos)
     ELSE IF P0.ret = NULLPTR THEN Return(P, NULLPTR, P.pos)
     ELSE IF f.pc = "key"
       THEN LET seen == [P EXCEPT !.reads = WsReads(input, P.pos)]
            IN IF colon.c # Ord(":") THEN Return(seen, NULLPTR, colon.pos)
               ELSE Invoke(seen, [f EXCEPT !.pc = "value", !.key = P0.ret.str_val],
                           ValueFrame, colon.pos)
     ELSE LET seen == [P EXCEPT !.reads = a.reads]
          IN IF a.closed THEN Return(seen, map2, a.pos)
             ELSE IF ~a.more THEN Return(seen, NULLPTR, a.pos)
             ELSE ObjectLoopHead(seen, map2, a.pos)

Parsing(fn) ==
  /\ call.op = "parse" /\ call.status = "running"
  /\ Top(call).fn = fn

\* glyph_from_json(json) up to its parse_value call.
FromJsonEnter(json) ==
  /\ IF call.op = "parse" THEN call.status # "running" ELSE TRUE
  /\ call' = [op |-> "parse", input |-> json, pos |-> 0, pos0 |-> 0,
              stack |-> <<ValueFrame>>, ret |-> NULLPTR, status |-> "running",
              steps |-> 0, reads |-> {}, writes |-> <<>>, scan |-> FALSE]
  /\ UNCHANGED <<root, kid>>

ParseValueStep ==
  /\ Parsing("parse_value")
  /\ call' = StepValue([call EXCEPT !.scan = FALSE])
  /\ UNCHANGED <<root, kid>>

ParseStringStep ==
  /\ Parsing("parse_string")
  /\ call' = StepString([call EXCEPT !.scan = FALSE])
  /\ UNCHANGED <<root, kid>>

ParseArrayStep ==
  /\ Parsing("parse_array")
  /\ call' = StepArray([call EXCEPT !.scan = FALSE])
  /\ UNCHANGED <<root, kid>>

ParseObjectStep ==
  /\ Parsing("parse_object")
  /\ call' = StepObject([call EXCEPT !.scan = FALSE])
  /\ UNCHANGED <<root, kid>>

\* Strings whose length comes up to the initial capacity of the buffer,
\* ending in a plain byte or in an escape of one, two or three bytes.
Run(n, c) == [i \in 1..n |-> c]

LongStrings ==
  { B(<<"\"">>) \o Run(n, Ord("a")) \o tail \o B(<<"\"">>) :
      n \in (INITIAL_STR_CAP - 4)..(INITIAL_STR_CAP + 1),
      tail \in { <<>>, B(<<"\\", "n">>), B(<<"\\", "u", "0", "0", "4", "1">>),
                 B(<<"\\", "u", "0", "0", "e", "9">>),
                 B(<<"\\", "u", "2", "0", "a", "c">>) } }

\* Strings cut inside an escape, and containers nested to the depth of the
\* stack and beyond.
CutStrings ==
  { B(<<"\"", "a", "\\">>), B(<<"\"", "\\", "u">>), B(<<"\"", "\\", "u", "0", "0", "e">>),
    B(<<"\"", "\\", "u", "0", "0", "e", "\"">>), B(<<"\"", "\\", "u", "z", "z", "z", "z", "\"">>),
    B(<<"\"", "\\", "x", "\"">>), B(<<" ", "\"", "a">>), B(<<"-">>), B(<<"1", "e">>),
    B(<<"1", ".", "5", "e", "+">>), B(<<"n", "u", "l">>), B(<<" ", "t", "r", "u", "e", " ">>) }

DeepTexts ==
  UNION { { Run(n, Ord("[")), Run(n, Ord("[")) \o B(<<"1">>) \o Run(n, Ord("]")) } :
            n \in 1..(MaxStack \div 2 + 2) }
    \cup { B(<<"{", "\"", "a", "\"", ":", "{", "\"", "b", "\"", ":", "[", "{", "}", "]", "}", "}">>) }

ParseTexts == JsonTexts \cup LongStrings \cup CutStrings \cup DeepTexts

NextParse ==
  \/ \E json \in ParseTexts : FromJsonEnter(json)
  \/ ParseValueStep
  \/ ParseStringStep
  \/ ParseArrayStep
  \/ ParseObjectStep

SpecParse == Init /\ [][NextParse]_vars

(***************************************************************************)
(* SpecAccess: the host holds a value of any kind, or none, and reads it   *)
(* through every accessor.                                                 *)
(***************************************************************************)

MaxIndex == 3

AccessScalars ==
  { glyph_null, glyph_bool(TRUE), glyph_bool(FALSE),
    glyph_int(INT_ZERO), glyph_int([neg |-> TRUE, mag |-> <<4, 2>>]), Int1,
    glyph_float(FLOAT_ZERO), glyph_float([neg |-> TRUE, ip |-> <<1>>, fp |-> <<5>>]),
    glyph_str(<<>>), glyph_str(B(<<"x">>)),
    glyph_bytes(<<>>), glyph_bytes(<<0, 255>>),
    glyph_id(<<>>, B(<<"x">>)), glyph_id(B(<<"u">>), B(<<"1">>)) }

AccessLists ==
  {glyph_list_new} \cup {glyph_list_append(glyph_list_new, a) : a \in AccessScalars}
    \cup {glyph_list_append(glyph_list_append(glyph_list_new, a), b) :
            a \in {Int1, glyph_null}, b \in {glyph_str(B(<<"x">>)), glyph_list_new}}

AccessObjects ==
  UNION {{o, glyph_map_set(o, StrPtr(B(<<"x">>)), Int1),
          glyph_map_set(glyph_map_set(o, StrPtr(B(<<"x">>)), Int1), StrPtr(B(<<"y">>)), glyph_bool(TRUE)),
          glyph_map_set(glyph_map_set(o, StrPtr(B(<<"y">>)), glyph_null), StrPtr(B(<<"x">>)), glyph_list_new),
          glyph_struct_set(o, StrPtr(B(<<"x">>)), Int1),
          glyph_struct_set(glyph_struct_set(o, StrPtr(B(<<"y">>)), glyph_str(B(<<"x">>))),
                           StrPtr(B(<<"x">>)), glyph_float(FLOAT_ZERO)),
          glyph_map_set(glyph_map_set(o, StrPtr(B(<<"x">>)), Int1), StrPtr(B(<<"x">>)), glyph_bool(TRUE)),
          glyph_map_set(glyph_map_set(glyph_map_set(o, StrPtr(B(<<"y">>)), glyph_null),
                                      StrPtr(B(<<"x">>)), glyph_list_new), StrPtr(B(<<"y">>)), Int1),
          glyph_struct_set(glyph_struct_set(glyph_struct_set(o, StrPtr(B(<<"x">>)), glyph_null),
                                            StrPtr(B(<<"y">>)), Int1), StrPtr(B(<<"x">>)), Int1)}
         : o \in {glyph_map_new, glyph_struct_new(B(<<"T">>))}}

AccessValues ==
  AccessScalars \cup AccessLists \cup AccessObjects
    \cup {glyph_sum(B(<<"S">>), Int1), glyph_sum(B(<<"S">>), glyph_list_new)}

AccessKeys == {NULL_STR, StrPtr(B(<<"x">>)), StrPtr(B(<<"y">>)), StrPtr(B(<<"z">>)), StrPtr(<<>>)}

\* The host calls each accessor on root, which may be NULL: glyph_list_get
\* with index and glyph_get with key.
Access(index, key) ==
  /\ kid = NULLPTR
  /\ call' = [op |-> "access", index |-> index, key |-> key,
              get_type |-> glyph_get_type(root),
              as_bool |-> glyph_as_bool(root),
              as_int |-> glyph_as_int(root),
              as_float |-> glyph_as_float(root),
              as_str |-> glyph_as_str(root),
              list_len |-> glyph_list_len(root),
              list_get |-> glyph_list_get(root, index),
              get |-> glyph_get(root, key)]
  /\ UNCHANGED <<root, kid>>

NextAccess ==
  \/ \E v \in AccessValues : NewRoot(v)
  \/ \E index \in 0..MaxIndex, key \in AccessKeys : Access(index, key)

SpecAccess == Init /\ [][NextAccess]_vars

(***************************************************************************)
(* SpecBuf: one canonicalize call seen from its output buffer.  The call   *)
(* initialises the buffer, the writers append strings and single bytes,    *)
(* and the call returns strbuf_finish.  malloc and realloc may fail.  buf  *)
(* is [data, len, cap] of strbuf_t plus two histories: extent, how far     *)
(* into the block the call has written, and failed, whether an allocation  *)
(* of the call has failed.                                                 *)
(***************************************************************************)

INITIAL_CAP == 256
MaxBufLen == 1100

\* alloc_ok: malloc returned a block.
strbuf_init(alloc_ok) ==
  [data |-> IF alloc_ok THEN "block" ELSE "NULL", len |-> 0, cap |-> INITIAL_CAP,
   extent |-> IF alloc_ok THEN 1 ELSE 0, failed |-> ~alloc_ok]

\* while (buf->len + need >= new_cap) new_cap *= 2;
RECURSIVE DoubleUntil(_, _)
DoubleUntil(new_cap, least) ==
  IF least >= new_cap THEN DoubleUntil(new_cap * 2, least) ELSE new_cap

\* alloc_ok: realloc returned a block; on failure buf is left as it is.
strbuf_grow(buf, need, alloc_ok) ==
  IF buf.len + need >= buf.cap
    THEN IF alloc_ok
           THEN [buf EXCEPT !.data = "block",
                            !.cap = DoubleUntil(buf.cap * 2, buf.len + need)]
         ELSE [buf EXCEPT !.failed = TRUE]
  ELSE buf

Max(a, b) == IF a >= b THEN a ELSE b

\* strbuf_append of a string of len bytes: memcpy of len + 1 bytes to
\* data + buf->len.
strbuf_append(buf, len, alloc_ok) ==
  LET b == strbuf_grow(buf, len + 1, alloc_ok)
  IN [b EXCEPT !.extent = Max(@, b.len + len + 1), !.len = @ + len]

\* strbuf_append_char: data[len++] = c; data[len] = 0.
strbuf_append_char(buf, alloc_ok) ==
  LET b == strbuf_grow(buf, 2, alloc_ok)
  IN [b EXCEPT !.extent = Max(@, b.len + 2), !.len = @ + 1]

strbuf_finish(buf) == buf.data

\* The append has stored through a NULL pointer or past the block: the
\* behaviour is undefined.
Faulted(buf) == buf.extent > 0 /\ (buf.data = "NULL" \/ buf.extent > buf.cap)

AppendLens == {0, 3, 200, 600}

Writing == call.op = "writing"

\* strbuf_init(&buf) of glyph_canonicalize_loose_with_opts
BufInit(alloc_ok) ==
  /\ call = NoCall
  /\ call' = [op |-> "writing", buf |-> strbuf_init(alloc_ok)]
  /\ UNCHANGED <<root, kid>>

\* What an append leaves: the buffer b, or, after a store outside the block,
\* also a crash.
AfterAppend(b) ==
  \/ call' = [op |-> "writing", buf |-> b]
  \/ Faulted(b) /\ call' = [op |-> "crashed", buf |-> b]

\* strbuf_append(&buf, s) with strlen(s) = len
BufAppend(len, alloc_ok) ==
  /\ Writing /\ call.buf.len + len <= MaxBufLen
  /\ AfterAppend(strbuf_append(call.buf, len, alloc_ok))
  /\ UNCHANGED <<root, kid>>

\* strbuf_append_char(&buf, c)
BufAppendChar(alloc_ok) ==
  /\ Writing /\ call.buf.len + 1 <= MaxBufLen
  /\ AfterAppend(strbuf_append_char(call.buf, alloc_ok))
  /\ UNCHANGED <<root, kid>>

\* return strbuf_finish(&buf);
BufFinish ==
  /\ Writing
  /\ call' = [op |-> "returned", buf |-> call.buf, result |-> strbuf_finish(call.buf)]
  /\ UNCHANGED <<root, kid>>

NextBuf ==
  \/ \E alloc_ok \in BOOLEAN : BufInit(alloc_ok)
  \/ \E len \in AppendLens, alloc_ok \in BOOLEAN : BufAppend(len, alloc_ok)
  \/ \E alloc_ok \in BOOLEAN : BufAppendChar(alloc_ok)
  \/ BufFinish

SpecBuf == Init /\ [][NextBuf]_vars

(***************************************************************************)
(* SpecKeys: the host builds a Map or a Struct whose keys are any strings, *)
(* set in any order, and canonicalizes it.                                 *)
(***************************************************************************)

MaxKeys == 3

\* Keys: prefixes of each other, upper and lower case, the empty key, keys
\* that need quotes, a two-byte UTF-8 character, and bytes around 0x7F/0x80.
KeyPool ==
  { B(<<"a">>), B(<<"a", "b">>), B(<<"B">>), <<>>, B(<<"a", " ">>),
    <<195, 169>>, <<127>>, <<128>>, <<255>> }

\* The object whose i-th set call was (ks[i], i).
RECURSIVE ObjectOfKeys(_, _)
ObjectOfKeys(empty, ks) ==
  IF ks = <<>> THEN empty
  ELSE LET o == ObjectOfKeys(empty, SubSeq(ks, 1, Len(ks) - 1))
           v == glyph_int([neg |-> FALSE, mag |-> <<Len(ks)>>])
       IN IF empty.type = "map" THEN glyph_map_set(o, StrPtr(ks[Len(ks)]), v)
          ELSE glyph_struct_set(o, StrPtr(ks[Len(ks)]), v)

KeyObjects ==
  UNION {{ObjectOfKeys(empty, ks) : ks \in [1..n -> KeyPool],
                                    empty \in {glyph_map_new, glyph_struct_new(B(<<"T">>))}}
         : n \in 0..MaxKeys}

NextKeys ==
  \/ \E v \in KeyObjects : NewRoot(v)
  \/ \E env \in Envs : Canonicalize(glyph_canon_opts_default, env)

SpecKeys == Init /\ [][NextKeys]_vars

(***************************************************************************)
(* SpecQuote: the host canonicalizes strings made of the bytes the quoted  *)
(* form treats differently.                                                *)
(***************************************************************************)

MaxQuoteLen == 2

\* Backslash, quote, the three named controls, other controls (1, 8, 31),
\* the letters and digit an escape is spelled with, a blank, 0x7F and bytes
\* above it.
QuoteAlphabet ==
  { Ord("\\"), Ord("\""), NL, CR, TAB, 1, 8, 31, Ord("n"), Ord("u"), Ord("0"), Ord(" "),
    127, 128, 255 }

\* The text of an escape as a string of its own, and after a backslash.
QuoteWords ==
  { B(<<"\\", "u", "0", "0", "0", "1">>), B(<<"\\", "\\", "u", "0", "0", "0", "1">>),
    B(<<"\\", "\\", "n">>), B(<<" ", "\"", "\\">>), <<1, 31, 32>>, <<195, 169, 32>> }

QuoteInputs == UNION {[1..k -> QuoteAlphabet] : k \in 0..MaxQuoteLen} \cup QuoteWords

NextQuote ==
  \/ \E s \in QuoteInputs : NewRoot(glyph_str(s))
  \/ \E env \in Envs : Canonicalize(glyph_canon_opts_default, env)

SpecQuote == Init /\ [][NextQuote]_vars

(***************************************************************************)
(* SpecKinds: the host canonicalizes one scalar of any kind, a Null, Bool, *)
(* Int, Float, Str or Id, under each option preset, and writes it as JSON  *)
(* and parses the text back.                                               *)
(***************************************************************************)

MaxIdLen == 2

\* Bytes the two classifiers treat alike or differently, and bytes that are
\* escaped in the quoted form.
IdAlphabet ==
  { Ord("a"), Ord("Z"), Ord("9"), Ord("_"), Ord("-"), Ord("."), Ord("/"), Ord("@"),
    Ord(":"), Ord(" "), Ord("\""), Ord("\\"), 127, 128 }

IdValues ==
  UNION {[1..k -> IdAlphabet] : k \in 0..MaxIdLen}
    \cup {B(<<"t", "r", "u", "e">>), B(<<"n", "u", "l", "l">>), B(<<"4", "2">>)}

\* A prefix is stored as given; glyph_id stores "" for a NULL prefix.
IdPrefixes == {<<>>, B(<<"u">>), B(<<"a", " ", "b">>), B(<<"\"">>), B(<<"a", ":", "b">>)}

IdInputs == {glyph_id(p, v) : p \in IdPrefixes, v \in IdValues}

PlainScalars ==
  {glyph_null, glyph_bool(TRUE), glyph_bool(FALSE)} \cup IntInputs \cup FloatInputs

\* Strings spelled like the canonical form of some other scalar.
KindTexts ==
  {write_canon_value(w, opts, [ties |-> "stable", heap |-> <<1, 2>>]) :
     w \in PlainScalars, opts \in OptsPresets}

KindInputs ==
  PlainScalars \cup IdInputs \cup {glyph_str(s) : s \in StrInputs \cup KindTexts}

NextKinds ==
  \/ \E v \in KindInputs : NewRoot(v)
  \/ \E opts \in OptsPresets, env \in Envs : Canonicalize(opts, env)
  \/ ToJson
  \/ FromJson

SpecKinds == Init /\ [][NextKinds]_vars

(***************************************************************************)
(* SpecAppend: the host holds a target of any kind, or none, and calls the *)
(* three appenders on it with every combination of present and absent      *)
(* arguments.  The call records the target before it and the arguments.    *)
(***************************************************************************)

MaxAppend == 2

AppendTargets ==
  {glyph_list_new, glyph_map_new, glyph_struct_new(B(<<"T">>)), Int1}

AppendItems == {NULLPTR, Int1, glyph_null, glyph_list_new}

AppendKeys == {NULL_STR, StrPtr(<<>>), StrPtr(B(<<"x">>)), StrPtr(B(<<"y">>))}

\* glyph_list_append(root, item)
DoListAppend(item) ==
  /\ Width(root) < MaxAppend
  /\ root' = glyph_list_append(root, item)
  /\ call' = [op |-> "list_append", before |-> root, key |-> NULL_STR, item |-> item]
  /\ UNCHANGED kid

\* glyph_map_set(root, key, value)
DoMapSet(key, value) ==
  /\ Width(root) < MaxAppend
  /\ root' = glyph_map_set(root, key, value)
  /\ call' = [op |-> "map_set", before |-> root, key |-> key, item |-> value]
  /\ UNCHANGED kid

\* glyph_struct_set(root, key, value)
DoStructSet(key, value) ==
  /\ Width(root) < MaxAppend
  /\ root' = glyph_struct_set(root, key, value)
  /\ call' = [op |-> "struct_set", before |-> root, key |-> key, item |-> value]
  /\ UNCHANGED kid

NextAppend ==
  \/ \E v \in AppendTargets : NewRoot(v)
  \/ \E item \in AppendItems : DoListAppend(item)
  \/ \E key \in AppendKeys, value \in AppendItems : DoMapSet(key, value)
  \/ \E key \in AppendKeys, value \in AppendItems : DoStructSet(key, value)

SpecAppend == Init /\ [][NextAppend]_vars

(***************************************************************************)
(* Properties.  Text predicates used to state them.                        *)
(***************************************************************************)

StartsWith(s, prefix) ==
  Len(s) >= Len(prefix) /\ SubSeq(s, 1, Len(prefix)) = prefix

EndsWith(s, suffix) ==
  Len(s) >= Len(suffix) /\ SubSeq(s, Len(s) - Len(suffix) + 1, Len(s)) = suffix

Contains(s, part) ==
  \E i \in 1..(Len(s) - Len(part) + 1) : SubSeq(s, i, i + Len(part) - 1) = part

\* What lies between a prefix and a suffix of s.
Between(s, prefix, suffix) == SubSeq(s, Len(prefix) + 1, Len(s) - Len(suffix))

TabOpen == B(<<"@", "t", "a", "b", " ">>)
TabMark == B(<<"@", "t", "a", "b">>)
TabClose == B(<<"@", "e", "n", "d">>)

Called(op) == call.op = op

\* The keys of an object, the keys some element of a list has, and the keys
\* every element has.
KeySet(item) == {EntriesOf(item)[j].key : j \in 1..Len(EntriesOf(item))}
KeyUnion(items) == UNION {KeySet(items[i]) : i \in 1..Len(items)}
KeysCommon(items) == {k \in KeyUnion(items) : \A i \in 1..Len(items) : k \in KeySet(items[i])}
AllObjects(items) == \A i \in 1..Len(items) : items[i].type \in {"map", "struct"}

\* The children of a container, and every value of a tree.
Children(v) ==
  IF v.type = "list" THEN {v.items[i] : i \in 1..Len(v.items)}
  ELSE {EntriesOf(v)[i].value : i \in 1..Len(EntriesOf(v))}

RECURSIVE SubValues(_)
SubValues(v) == {v} \cup UNION {SubValues(c) : c \in Children(v)}

(***************************************************************************)
(* C1  Determinism: two calls of glyph_canonicalize_loose_with_opts on     *)
(* the same value with the same options return byte-identical text.        *)
(* Stated of a call that returned call.out: with qsort breaking ties as    *)
(* it did in that call, a call on any heap returns call.out again.         *)
(***************************************************************************)
C1_Determinism ==
  Called("canonicalize") =>
    \E t \in Ties : \A h \in Heaps :
      glyph_canonicalize_loose_with_opts(root, call.opts, [ties |-> t, heap |-> h])
        = call.out

(***************************************************************************)
(* C2  Key-order independence: with pairwise distinct keys in every map    *)
(* and struct of the value, the order of the glyph_map_set and             *)
(* glyph_struct_set calls does not change the canonical form.  Stated of a *)
(* call that returned call.out: in the environment of that call, the       *)
(* value built by the same calls made in key order yields call.out too.    *)
(***************************************************************************)
DistinctKeys(v) ==
  \A w \in SubValues(v) :
    \A i, j \in 1..Len(EntriesOf(w)) :
      EntriesOf(w)[i].key = EntriesOf(w)[j].key => i = j

\* The value the same set calls build when each object is filled in
\* ascending key order.
RECURSIVE InKeyOrder(_)
InKeyOrder(v) ==
  LET ordered(entries) ==
        LET srt == qsort_entries(entries, "stable")
        IN [i \in 1..Len(srt) |->
              [key |-> srt[i].key, value |-> InKeyOrder(srt[i].value)]]
  IN IF v.type = "list"
       THEN [v EXCEPT !.items = [i \in 1..Len(v.items) |-> InKeyOrder(v.items[i])]]
     ELSE IF v.type = "map" THEN [v EXCEPT !.entries = ordered(v.entries)]
     ELSE IF v.type = "struct" THEN [v EXCEPT !.fields = ordered(v.fields)]
     ELSE v

C2_KeyOrderIndependence ==
  (Called("canonicalize") /\ DistinctKeys(root)) =>
    \E env \in Envs :
      /\ glyph_canonicalize_loose_with_opts(root, call.opts, env) = call.out
      /\ glyph_canonicalize_loose_with_opts(InKeyOrder(root), call.opts, env) = call.out

(***************************************************************************)
(* C3  Whole-number collapse: for every integer n with |n| < 10^15 the     *)
(* canonical form of Float(n) is the canonical form of Int(n), the plain   *)
(* decimal digits of n without decimal point or exponent; Float(-0.0)      *)
(* renders as "0"; and glyph_equal_loose(Float(n), Int(n)) is true.        *)
(***************************************************************************)
\* The integer a whole double is equal to, and the decimal numeral of an
\* integer.
WholeOf(f) == [neg |-> f.neg /\ ~AllZero(f.ip), mag |-> f.ip]
Numeral(n) == (IF n.neg THEN <<45>> ELSE <<>>) \o [i \in 1..Len(n.mag) |-> 48 + n.mag[i]]

\* root is Float(n) for an integer n with |n| < 10^15.
SmallWholeFloat ==
  /\ root.type = "float"
  /\ root.float_val.fp = <<>>
  /\ Len(root.float_val.ip) <= 15

NegativeZero == [neg |-> TRUE, ip |-> <<0>>, fp |-> <<>>]

C3_WholeNumberCollapse ==
  /\ (Called("canonicalize") /\ SmallWholeFloat) =>
       /\ call.out = Numeral(WholeOf(root.float_val))
       /\ \A env \in Envs :
            call.out = glyph_canonicalize_loose_with_opts(
                         glyph_int(WholeOf(root.float_val)), call.opts, env)
  /\ (Called("canonicalize") /\ root = glyph_float(NegativeZero)) =>
       call.out = B(<<"0">>)
  /\ (Called("equal_loose") /\ SmallWholeFloat
        /\ call.b = glyph_int(WholeOf(root.float_val))) => call.eq
  /\ (Called("equal_loose") /\ root.type = "int" /\ Len(root.int_val.mag) <= 15
        /\ call.b.type = "float") => call.eq

\* Float(-999999999999999) has been compared with Int(-999999999999999).
C3_Witness ==
  /\ Called("equal_loose")
  /\ root = glyph_float([neg |-> TRUE, ip |-> Nines(15), fp |-> <<>>])
  /\ call.b = glyph_int([neg |-> TRUE, mag |-> Nines(15)])
  /\ call.eq

(***************************************************************************)
(* C4  String classifier: a Str, a Map or Struct key and a tabular column  *)
(* name is emitted bare, exactly as its own bytes, iff it is non-empty,    *)
(* does not start with a decimal digit, a double quote, a single quote or  *)
(* a dash, is none of t, f, true, false, null, _, and consists of ASCII    *)
(* letters and digits, _ - . / @ : and bytes above 0x7F; otherwise it is   *)
(* emitted in the double-quoted form.                                      *)
(***************************************************************************)
BareByClaim(s) ==
  /\ Len(s) > 0
  /\ s[1] \notin (48..57) \cup {34, 39, 45}
  /\ s \notin { <<116>>, <<102>>, <<116, 114, 117, 101>>, <<102, 97, 108, 115, 101>>,
                <<110, 117, 108, 108>>, <<95>> }
  /\ \A i \in 1..Len(s) :
       s[i] \in (48..57) \cup (65..90) \cup (97..122) \cup {95, 45, 46, 47, 64, 58}
                 \cup (128..255)

\* text is what the claim allows for the string s.
EmittedByClaim(s, text) ==
  IF BareByClaim(s) THEN text = s
  ELSE /\ Len(text) >= Len(s) + 2
       /\ text[1] = 34
       /\ text[Len(text)] = 34

\* out is prefix, then s as the claim emits it, then suffix.
Framed(out, prefix, s, suffix) ==
  /\ StartsWith(out, prefix)
  /\ EndsWith(out, suffix)
  /\ Len(out) >= Len(prefix) + Len(suffix)
  /\ EmittedByClaim(s, Between(out, prefix, suffix))

IsKeyed(v) == v.type \in {"map", "struct"} /\ Len(EntriesOf(v)) = 1

C4_StringClassifier ==
  Called("canonicalize") =>
    /\ root.type = "str" => EmittedByClaim(root.str_val, call.out)
    /\ (root.type = "map" /\ IsKeyed(root)) =>
         Framed(call.out, B(<<"{">>), root.entries[1].key, B(<<"=", "1", "}">>))
    /\ (root.type = "struct" /\ IsKeyed(root)) =>
         Framed(call.out, B(<<"T", "{">>), root.fields[1].key, B(<<"=", "1", "}">>))
    /\ (root.type = "list" /\ Len(root.items) = 1 /\ IsKeyed(root.items[1])) =>
         IF call.opts.min_rows <= 1
           THEN Framed(call.out,
                  B(<<"@", "t", "a", "b", " ", "_", " ", "r", "o", "w", "s", "=", "1", " ",
                      "c", "o", "l", "s", "=", "1", " ", "[">>),
                  root.items[1].entries[1].key,
                  B(<<"]">>) \o <<10>> \o B(<<"|", "1", "|">>) \o <<10>>
                    \o B(<<"@", "e", "n", "d">>))
           ELSE Framed(call.out, B(<<"[", "{">>), root.items[1].entries[1].key,
                  B(<<"=", "1", "}", "]">>))

\* The Str "true" has been canonicalized, and came out quoted.
C4_Witness ==
  /\ Called("canonicalize")
  /\ root = glyph_str(B(<<"t", "r", "u", "e">>))
  /\ call.out = B(<<"\"", "t", "r", "u", "e", "\"">>)

(***************************************************************************)
(* C5  Fingerprint and equality agree: glyph_equal_loose(a, b) is true    *)
(* iff glyph_fingerprint_loose(a) and glyph_fingerprint_loose(b) are       *)
(* byte-equal.  Stated of a call that returned call.eq: whatever heaps the *)
(* two fingerprint calls run on, their texts are equal exactly when        *)
(* call.eq is true.                                                        *)
(***************************************************************************)
C5_FingerprintEquality ==
  Called("equal_loose") =>
    \E t \in Ties : \A h1, h2 \in Heaps :
      call.eq = (glyph_fingerprint_loose(root, [ties |-> t, heap |-> h1])
                   = glyph_fingerprint_loose(call.b, [ties |-> t, heap |-> h2]))

(***************************************************************************)
(* C6  Tabular eligibility is exact: with auto_tabular on, a list is       *)
(* rendered in the @tab form iff its length is >= min_rows, every element  *)
(* is a Map or a Struct, the union of the elements' keys is non-empty and  *)
(* has at most max_cols members, and twice the number of keys present in   *)
(* every element is at least the size of the union; in every other case    *)
(* the output begins with '['.                                             *)
(***************************************************************************)
EligibleByClaim(items, opts) ==
  /\ Len(items) >= opts.min_rows
  /\ AllObjects(items)
  /\ KeyUnion(items) # {}
  /\ Cardinality(KeyUnion(items)) <= opts.max_cols
  /\ 2 * Cardinality(KeysCommon(items)) >= Cardinality(KeyUnion(items))

C6_TabularEligibility ==
  (Called("canonicalize") /\ root.type = "list" /\ call.opts.auto_tabular) =>
    IF EligibleByClaim(root.items, call.opts)
      THEN StartsWith(call.out, TabOpen) /\ EndsWith(call.out, TabClose)
      ELSE call.out[1] = Ord("[") /\ ~StartsWith(call.out, TabOpen)

\* A map with both keys, a map and a struct with one of them: exactly half
\* of the columns are common, and the list came out as a table.
C6_Witness ==
  /\ Called("canonicalize")
  /\ call.opts = glyph_canon_opts_default
  /\ root.type = "list" /\ Len(root.items) = 3
  /\ root.items[1].type = "map" /\ root.items[3].type = "struct"
  /\ Cardinality(KeyUnion(root.items)) = 2
  /\ Cardinality(KeysCommon(root.items)) = 1
  /\ StartsWith(call.out, TabOpen)

(***************************************************************************)
(* C7  Tabular threshold: under the default options, the canonical form    *)
(* of a list of 3 or more homogeneous objects (every key present in every  *)
(* element) with at most 64 columns begins with "@tab " and ends with      *)
(* "@end".                                                                 *)
(***************************************************************************)
HomogeneousRows ==
  /\ root.type = "list"
  /\ Len(root.items) >= 3
  /\ AllObjects(root.items)
  /\ KeysCommon(root.items) = KeyUnion(root.items)
  /\ Cardinality(KeyUnion(root.items)) <= 64

\* The claim as stated.
C7_TabularThreshold ==
  (Called("canonicalize") /\ call.opts = glyph_canon_opts_default /\ HomogeneousRows) =>
    StartsWith(call.out, TabOpen) /\ EndsWith(call.out, TabClose)

\* C7 as amended: ... with at least one and at most 64 columns ...
C7_TabularThresholdWithColumns ==
  (Called("canonicalize") /\ call.opts = glyph_canon_opts_default /\ HomogeneousRows
     /\ KeyUnion(root.items) # {}) =>
    StartsWith(call.out, TabOpen) /\ EndsWith(call.out, TabClose)

\* Three objects with the same two keys came out as a table.
C7_Witness ==
  /\ Called("canonicalize")
  /\ call.opts = glyph_canon_opts_default
  /\ HomogeneousRows
  /\ Len(root.items) = 3
  /\ Cardinality(KeyUnion(root.items)) = 2
  /\ StartsWith(call.out, TabOpen) /\ EndsWith(call.out, TabClose)

(***************************************************************************)
(* C8  Option allow_missing: when allow_missing is false, a list is        *)
(* rendered in tabular form only if every key of the union is present in   *)
(* every element, so no cell is filled with the null glyph for an absent   *)
(* key.                                                                    *)
(***************************************************************************)
C8_AllowMissing ==
  (Called("canonicalize") /\ root.type = "list" /\ ~call.opts.allow_missing
     /\ StartsWith(call.out, TabOpen)) =>
    KeysCommon(root.items) = KeyUnion(root.items)

(***************************************************************************)
(* C9  Option auto_tabular: when auto_tabular is false, every list at      *)
(* every nesting depth is rendered as '[', its elements' encodings in      *)
(* list order joined by single spaces, ']', and no tabular block is        *)
(* emitted anywhere.                                                       *)
(***************************************************************************)
BracketForm(items, opts, env) ==
  <<91>>
  \o Concat([i \in 1..Len(items) |->
       (IF i > 1 THEN <<32>> ELSE <<>>)
         \o glyph_canonicalize_loose_with_opts(items[i], opts, env)])
  \o <<93>>

C9_NoTabular ==
  (Called("canonicalize") /\ ~call.opts.auto_tabular) =>
    /\ ~Contains(call.out, TabMark)
    /\ \A env \in Envs :
         /\ glyph_canonicalize_loose_with_opts(root, call.opts, env) = call.out
         /\ \A w \in SubValues(root) :
              w.type = "list" =>
                LET text == glyph_canonicalize_loose_with_opts(w, call.opts, env)
                IN /\ text = BracketForm(w.items, call.opts, env)
                   /\ Contains(call.out, text)

\* A map holding a list of three maps with the same two keys, which the
\* default options render as a table, came out in brackets.
C9_Witness ==
  /\ Called("canonicalize")
  /\ call.opts = glyph_canon_opts_no_tabular
  /\ root.type = "map" /\ Len(root.entries) = 1
  /\ root.entries[1].value.type = "list"
  /\ EligibleByClaim(root.entries[1].value.items, glyph_canon_opts_default)
  /\ StartsWith(call.out, B(<<"{", "x", "=", "[", "{">>))

(***************************************************************************)
(* C10  JSON partial round-trip: for a value v built only from Null, Bool, *)
(* Int, Float, Str, List and Map, glyph_from_json(glyph_to_json(v)) is     *)
(* present and glyph_equal_loose(v, glyph_from_json(glyph_to_json(v))) is  *)
(* true.                                                                   *)
(***************************************************************************)
JsonKinds == {"null", "bool", "int", "float", "str", "list", "map"}

C10_JsonRoundTrip ==
  (call.op \in {"from_json", "roundtrip_equal"}
     /\ \A w \in SubValues(root) : w.type \in JsonKinds) =>
    /\ call.v2 # NULLPTR
    /\ Called("roundtrip_equal") => call.eq

(***************************************************************************)
(* C11.  JSON parse errors yield an absent result: for every text with a   *)
(* structural error at any nesting depth (empty text, unknown or truncated *)
(* literal name, unterminated string, array or object, missing ':' or ',', *)
(* a key that is not a string, a ',' before ']' or '}') glyph_from_json    *)
(* returns NULL, never a partly built tree, and every block the parser     *)
(* had allocated on the way has been released.                             *)
(***************************************************************************)
C11_ParseErrorsAbsent ==
  (Called("from_json_text") /\ call.json \in BrokenTexts) =>
    /\ root = NULLPTR
    /\ call.leak = <<>>

\* A ',' before a closing bracket two levels down, after items were parsed
\* into the enclosing lists.
C11_Witness ==
  /\ Called("from_json_text")
  /\ call.json \in TrailingCommas
  /\ Contains(call.json, B(<<"t", "r", "u", "e", ",">>))
  /\ root = NULLPTR

(***************************************************************************)
(* C12.  Duplicate keys are last-write-wins: after a glyph_map_set on a    *)
(* Map or a glyph_struct_set on a Struct, whatever was set before, the     *)
(* container holds exactly one entry with the key just set, and that entry *)
(* carries the value just set.                                             *)
(***************************************************************************)
EntriesWithKey(v, key) == {i \in 1..Len(EntriesOf(v)) : EntriesOf(v)[i].key = key}

\* c2 is what c has become by the set call of its kind with (key, value).
IsSetCall(c, c2, key, value) ==
  \/ c.type = "map" /\ c2 = glyph_map_set(c, StrPtr(key), value)
  \/ c.type = "struct" /\ c2 = glyph_struct_set(c, StrPtr(key), value)

LastWriteWins(c2, key, value) ==
  /\ Cardinality(EntriesWithKey(c2, key)) = 1
  /\ glyph_get(c2, StrPtr(key)) = value

C12_LastWriteWins ==
  [][\A key \in Keys :
       /\ \A leaf \in Leaves :
            (kid # NULLPTR /\ kid' # kid /\ IsSetCall(kid, kid', key, leaf))
              => LastWriteWins(kid', key, leaf)
       /\ (kid # NULLPTR /\ kid' = NULLPTR /\ root' # root /\ IsSetCall(root, root', key, kid))
              => LastWriteWins(root', key, kid)]_vars

(***************************************************************************)
(* C13.  The canonical output of a Map or Struct contains each key at most *)
(* once: in the {k=v ...} form of an object whose values are scalars each  *)
(* "k=" occurs at most once, and in the header of a table each column name *)
(* occurs at most once.                                                    *)
(***************************************************************************)
Occurrences(s, part) ==
  Cardinality({i \in 1..(Len(s) - Len(part) + 1) : SubSeq(s, i, i + Len(part) - 1) = part})

FirstIndex(s, c) == CHOOSE i \in 1..Len(s) : s[i] = c /\ \A j \in 1..(i - 1) : s[j] # c

\* The column names of a table's first line, between '[' and ']'.
HeaderOf(out) == SubSeq(out, FirstIndex(out, Ord("[")) + 1, FirstIndex(out, Ord("]")) - 1)

ScalarObject(v) ==
  /\ v.type \in {"map", "struct"}
  /\ \A i \in 1..Len(EntriesOf(v)) : ~IsContainer(EntriesOf(v)[i].value)

C13_KeysOnce ==
  Called("canonicalize") =>
    /\ ScalarObject(root) =>
         \A key \in Keys : Occurrences(call.out, key \o B(<<"=">>)) <= 1
    /\ StartsWith(call.out, TabOpen) =>
         \A key \in Keys : Occurrences(HeaderOf(call.out), key) <= 1

(***************************************************************************)
(* C14.  Typed accessors never fail on a kind mismatch: for a value of     *)
(* another kind, or an absent value, glyph_as_bool gives false,            *)
(* glyph_as_int 0, glyph_as_float 0.0, glyph_as_str NULL, glyph_list_len   *)
(* 0, glyph_list_get NULL (also for an index >= length), glyph_get NULL,   *)
(* and glyph_get_type of an absent value is GLYPH_NULL; for a value of the *)
(* matching kind each accessor gives the stored payload.                   *)
(***************************************************************************)
Absent == root = NULLPTR
OfKind(kind) == ~Absent /\ root.type = kind

C14_AccessorSentinels ==
  Called("access") =>
    /\ call.get_type = (IF Absent THEN "null" ELSE root.type)
    /\ call.as_bool = (IF OfKind("bool") THEN root.bool_val ELSE FALSE)
    /\ call.as_int = (IF OfKind("int") THEN root.int_val ELSE INT_ZERO)
    /\ call.as_float = (IF OfKind("float") THEN root.float_val ELSE FLOAT_ZERO)
    /\ call.as_str = (IF OfKind("str") THEN StrPtr(root.str_val) ELSE NULL_STR)
    /\ call.list_len = (IF OfKind("list") THEN Len(root.items) ELSE 0)
    /\ call.list_get = (IF OfKind("list") /\ call.index < Len(root.items)
                          THEN root.items[call.index + 1] ELSE NULLPTR)
    /\ IF (OfKind("map") \/ OfKind("struct")) /\ call.key # NULL_STR
            /\ EntriesWithKey(root, call.key.chars) # {}
         THEN \E i \in EntriesWithKey(root, call.key.chars) :
                call.get = EntriesOf(root)[i].value
       ELSE call.get = NULLPTR

\* A list of two items asked for the item at index 2, its length.
C14_Witness ==
  /\ Called("access")
  /\ OfKind("list") /\ Len(root.items) = 2 /\ call.index = 2
  /\ call.list_get = NULLPTR /\ call.list_len = 2

(***************************************************************************)
(* C15.  Encoding does not mutate its input: when a canonicalize, equal or *)
(* to-JSON call returns, the value passed in is as it was, the stored      *)
(* order of every entry array and item array included, so a later          *)
(* glyph_to_json gives the same text as before the call.                   *)
(***************************************************************************)
EncodeOps == {"canonicalize", "equal_loose", "to_json", "roundtrip_equal"}

C15_NoMutation ==
  [][call'.op \in EncodeOps =>
       /\ root' = root
       /\ kid' = kid
       /\ glyph_to_json(root') = glyph_to_json(root)]_vars

\* A map stored in the order y, x has been canonicalized (as {x=... y=...})
\* and is still stored in the order y, x.
C15_Witness ==
  /\ Called("canonicalize")
  /\ root.type = "map" /\ Len(root.entries) = 2
  /\ root.entries[1].key = B(<<"y">>) /\ root.entries[2].key = B(<<"x">>)
  /\ StartsWith(call.out, B(<<"{", "x", "=">>))

(***************************************************************************)
(* C16.  Transient allocations are released on every exit path: when a     *)
(* canonicalize call returns, every allocation made during the call other  *)
(* than the returned output buffer has been freed, whichever way the       *)
(* tabular detector exited.                                                *)
(***************************************************************************)
C16_TransientsReleased ==
  Called("canonicalize") => call.unreleased = <<>>

(***************************************************************************)
(* C17.  Allocation failure is handled: if the initial allocation or any   *)
(* growth of the output buffer fails during a canonicalize call, the call  *)
(* yields an absent (NULL) result, and no append ever writes at or beyond  *)
(* the buffer's allocated capacity.                                        *)
(***************************************************************************)
C17_AllocationFailureHandled ==
  /\ call.op \in {"writing", "returned", "crashed"} =>
       /\ call.buf.extent <= call.buf.cap
       /\ call.buf.data = "NULL" => call.buf.extent = 0
  /\ (call.op = "returned" /\ call.buf.failed) => call.result = "NULL"

(***************************************************************************)
(* C18.  Hash contract: glyph_hash_loose(v) is a string of exactly 16      *)
(* characters, each in 0-9a-f, and a function of the value: a repeated     *)
(* call on the same value returns the same string, and so does any call    *)
(* whose fingerprint is byte-equal.                                        *)
(***************************************************************************)
HexChars == {Ord("0"), Ord("1"), Ord("2"), Ord("3"), Ord("4"), Ord("5"), Ord("6"), Ord("7"),
             Ord("8"), Ord("9"), Ord("a"), Ord("b"), Ord("c"), Ord("d"), Ord("e"), Ord("f")}

C18_HashContract ==
  Called("hash_loose") =>
    /\ Len(call.hash) = 16
    /\ \A i \in 1..Len(call.hash) : call.hash[i] \in HexChars
    /\ \A env \in Envs : glyph_hash_loose(root, env) = call.hash

(***************************************************************************)
(* C19.  Map rendering: the canonical form of a Map is '{', then its       *)
(* entries as key=value in non-decreasing byte-wise (unsigned) order of    *)
(* the keys, joined by single spaces, then '}'; a Struct is its type name  *)
(* verbatim followed by the same rendering of its fields; an empty map is  *)
(* "{}".                                                                   *)
(***************************************************************************)
\* a <= b in the lexicographic order of unsigned bytes.
BytewiseLeq(a, b) ==
  \/ Len(a) <= Len(b) /\ SubSeq(b, 1, Len(a)) = a
  \/ \E i \in 1..Len(a) :
       /\ i <= Len(b)
       /\ SubSeq(a, 1, i - 1) = SubSeq(b, 1, i - 1)
       /\ a[i] < b[i]

IndexOrders(n) == {p \in [1..n -> 1..n] : \A i, j \in 1..n : p[i] = p[j] => i = j}

\* The entries in the order p, each as key=value, joined by single spaces.
RenderedInOrder(entries, p) ==
  JoinWith(<<32>>,
    [i \in 1..Len(entries) |->
       write_canon_string(entries[p[i]].key) \o <<61>>
         \o FmtLong(entries[p[i]].value.int_val)])

LowerHex == <<48, 49, 50, 51, 52, 53, 54, 55, 56, 57, 97, 98, 99, 100, 101, 102>>

EscapeByClaim(c) ==
  CASE c = 92 -> <<92, 92>>
    [] c = 34 -> <<92, 34>>
    [] c = 10 -> <<92, 110>>
    [] c = 13 -> <<92, 114>>
    [] c = 9 -> <<92, 116>>
    [] c < 32 /\ c \notin {9, 10, 13} ->
         <<92, 117, 48, 48, LowerHex[(c \div 16) + 1], LowerHex[(c % 16) + 1]>>
    [] OTHER -> <<c>>

LowerHexValue(c) == CHOOSE d \in 0..15 : LowerHex[d + 1] = c

\* The string a quoted body spells, read escape by escape; ok is false for a
\* body with a raw control byte, a '"' outside an escape or a broken escape.
RECURSIVE Unquote(_)
Unquote(body) ==
  LET bad == [ok |-> FALSE, str |-> <<>>]
      then(c, used) ==
        LET rest == Unquote(SubSeq(body, used + 1, Len(body)))
        IN IF rest.ok THEN [ok |-> TRUE, str |-> <<c>> \o rest.str] ELSE bad
      IsHex(i) == \E d \in 1..16 : LowerHex[d] = body[i]
  IN IF body = <<>> THEN [ok |-> TRUE, str |-> <<>>]
     ELSE IF body[1] = 92
       THEN IF Len(body) < 2 THEN bad
            ELSE CASE body[2] = 92 -> then(92, 2)
                   [] body[2] = 34 -> then(34, 2)
                   [] body[2] = 110 -> then(10, 2)
                   [] body[2] = 114 -> then(13, 2)
                   [] body[2] = 116 -> then(9, 2)
                   [] body[2] = 117 ->
                        IF Len(body) >= 6 /\ \A i \in 3..6 : IsHex(i)
                             /\ body[3] = 48 /\ body[4] = 48
                          THEN then(LowerHexValue(body[5]) * 16 + LowerHexValue(body[6]), 6)
                        ELSE bad
                   [] OTHER -> bad
     ELSE IF body[1] = 34 \/ body[1] < 32 THEN bad
     ELSE then(body[1], 1)

C20_QuotedForm ==
  (Called("canonicalize") /\ root.type = "str" /\ ~BareByClaim(root.str_val)) =>
    LET s == root.str_val
        body == SubSeq(call.out, 2, Len(call.out) - 1)
    IN /\ Len(call.out) >= 2
       /\ call.out[1] = 34 /\ call.out[Len(call.out)] = 34
       /\ body = Concat([i \in 1..Len(s) |-> EscapeByClaim(s[i])])
       /\ \A i \in 1..Len(body) : body[i] >= 32
       /\ Unquote(body) = [ok |-> TRUE, str |-> s]

\* A backslash followed by the letter n, next to how a newline is written.
C20_Witness ==
  /\ Called("canonicalize")
  /\ root = glyph_str(B(<<"\\", "n">>))
  /\ call.out = B(<<"\"", "\\", "\\", "n", "\"">>)
  /\ glyph_canonicalize_loose(glyph_str(<<NL>>), [ties |-> "stable", heap |-> <<1, 2>>])
       = B(<<"\"", "\\", "n", "\"">>)

(***************************************************************************)
(* C21.  Reference-id rendering: an Id is emitted as '^', then the prefix  *)
(* followed by ':' exactly when the prefix is non-empty (verbatim, never   *)
(* quoted), then the value: bare iff it is non-empty and every byte is     *)
(* ASCII alphanumeric, '_', '-', '.', or > 0x7F (a leading digit and the   *)
(* reserved words are bare; '/', '@', ':' are not), otherwise quoted.      *)
(***************************************************************************)
RefBareByClaim(s) ==
  /\ Len(s) > 0
  /\ \A i \in 1..Len(s) :
       s[i] \in (48..57) \cup (65..90) \cup (97..122) \cup {95, 45, 46} \cup (128..255)

QuotedByClaim(s) == <<34>> \o Concat([i \in 1..Len(s) |-> EscapeByClaim(s[i])]) \o <<34>>

C21_RefIdRendering ==
  (Called("canonicalize") /\ root.type = "id") =>
    call.out = <<94>>
               \o (IF root.prefix # <<>> THEN root.prefix \o <<58>> ELSE <<>>)
               \o (IF RefBareByClaim(root.value) THEN root.value
                   ELSE QuotedByClaim(root.value))

\* A value with '/', bare for a Str, is quoted in an Id; the prefix with a
\* blank is written as it is.
C21_Witness ==
  /\ Called("canonicalize")
  /\ root = glyph_id(B(<<"a", " ", "b">>), B(<<"a", "/">>))
  /\ call.out = B(<<"^", "a", " ", "b", ":", "\"", "a", "/", "\"">>)

(***************************************************************************)
(* C24.  Kinds do not collide in canonical text: under every option preset *)
(* the canonical form of a Str is never byte-equal to the canonical form   *)
(* of a Null, a Bool, an Int or a finite Float.                            *)
(***************************************************************************)
C24_KindsApart ==
  (Called("canonicalize") /\ root.type = "str") =>
    \A w \in PlainScalars, env \in Envs :
      glyph_canonicalize_loose_with_opts(w, call.opts, env) # call.out

(***************************************************************************)
(* C22.  Tabular layout: a list of N elements rendered as a table of K     *)
(* columns reads "@tab _ rows=N cols=K [", the K column names in strictly  *)
(* ascending byte-wise order, "]", then for each element in list order a   *)
(* row of exactly K cells delimited by '|', the c-th cell being the        *)
(* encoding of the element's value for the c-th column or the null glyph   *)
(* of the options when the element has no such key, then "@end" with no    *)
(* newline after it.                                                       *)
(***************************************************************************)
\* The keys of S in strictly ascending byte-wise order.
Ascending(S) ==
  CHOOSE cols \in [1..Cardinality(S) -> S] :
    \A i \in 1..(Cardinality(S) - 1) :
      BytewiseLeq(cols[i], cols[i + 1]) /\ cols[i] # cols[i + 1]

CellByClaim(item, col, opts, env) ==
  IF EntriesWithKey(item, col) = {} THEN canon_null(opts.null_style)
  ELSE LET first == CHOOSE i \in EntriesWithKey(item, col) :
                      \A j \in EntriesWithKey(item, col) : i <= j
       IN write_canon_value(EntriesOf(item)[first].value, opts, env)

TableByClaim(items, opts, env) ==
  LET cols == Ascending(KeyUnion(items))
  IN B(<<"@", "t", "a", "b", " ", "_", " ", "r", "o", "w", "s", "=">>) \o NatToDec(Len(items))
     \o B(<<" ", "c", "o", "l", "s", "=">>) \o NatToDec(Len(cols)) \o B(<<" ", "[">>)
     \o JoinWith(<<32>>, [c \in 1..Len(cols) |-> write_canon_string(cols[c])])
     \o <<93, 10>>
     \o Concat([i \in 1..Len(items) |->
          <<124>>
          \o Concat([c \in 1..Len(cols) |->
               CellByClaim(items[i], cols[c], opts, env) \o <<124>>])
          \o <<10>>])
     \o B(<<"@", "e", "n", "d">>)

C22_TabularLayout ==
  (Called("canonicalize") /\ root.type = "list" /\ StartsWith(call.out, TabOpen)) =>
    \E env \in Envs : call.out = TableByClaim(root.items, call.opts, env)

(***************************************************************************)
(* C23.  Keyed lookup is first-match: glyph_get(v, k) on a Map or Struct   *)
(* returns the value of the earliest-inserted entry whose key equals k,    *)
(* and NULL when no entry has key k.                                       *)
(***************************************************************************)
C23_FirstMatch ==
  (Called("access") /\ (OfKind("map") \/ OfKind("struct")) /\ call.key # NULL_STR) =>
    LET hits == EntriesWithKey(root, call.key.chars)
    IN IF hits = {} THEN call.get = NULLPTR
       ELSE \E i \in hits :
              /\ \A j \in hits : i <= j
              /\ call.get = EntriesOf(root)[i].value

\* A struct set with x = null, y = 1, x = 1 and asked for x.
C23_Witness ==
  /\ Called("access") /\ OfKind("struct") /\ Len(root.fields) = 3
  /\ root.fields[1] = [key |-> B(<<"x">>), value |-> glyph_null]
  /\ root.fields[3] = [key |-> B(<<"x">>), value |-> Int1]
  /\ call.key = StrPtr(B(<<"x">>))
  /\ call.get = glyph_null

(***************************************************************************)
(* C25.  glyph_to_json always emits text that the library's own parser     *)
(* accepts: glyph_from_json(glyph_to_json(v)) is present and the parse     *)
(* consumes the whole emitted text, also for an Id whose prefix or value   *)
(* contains '"' or a backslash.                                            *)
(***************************************************************************)
C25_JsonAccepted ==
  Called("from_json") =>
    /\ call.v2 # NULLPTR
    /\ parse_value(call.json, 0).pos = Len(call.json)

(***************************************************************************)
(* C26.  Loose equality keeps Structs apart from Maps inside lists: for    *)
(* two lists identical except that at one index one holds a Struct with a  *)
(* non-empty type name and the other a Map, or a Struct with another type  *)
(* name, with the same fields, glyph_equal_loose returns false, in         *)
(* bracketed and in tabular form.                                          *)
(***************************************************************************)
C26_StructsApartInLists ==
  (Called("equal_loose") /\ root.type = "list" /\ call.b \in Retyped(root)) =>
    call.eq = FALSE

(***************************************************************************)
(* C27.  Appenders are no-ops on invalid arguments: glyph_list_append with *)
(* an absent or non-List target or an absent item, and glyph_map_set /     *)
(* glyph_struct_set with an absent target, a target of another kind, an    *)
(* absent key or an absent value, leave the target as it was; a valid call *)
(* increases the count by exactly one, places the new child last and       *)
(* leaves all earlier entries and their order unchanged.                   *)
(***************************************************************************)
AppendOps == {"list_append", "map_set", "struct_set"}

\* The kind each appender accepts as its target.
TargetKind(op) ==
  IF op = "list_append" THEN "list" ELSE IF op = "map_set" THEN "map" ELSE "struct"

\* The children of a container, in order.
ChildrenOf(v) == IF v.type = "list" THEN v.items ELSE EntriesOf(v)

StepBound(n) == 4 * n + 2

C28_ParseEnds ==
  call.op = "parse" =>
    /\ call.status \in {"running", "done"}
    /\ call.steps <= StepBound(Len(call.input))

(***************************************************************************)
(* C29.  Parser cursor and string-buffer bounds: in every state of a       *)
(* glyph_from_json parse the cursor satisfies 0 <= pos <= len and never    *)
(* decreases, no input byte at an index >= len is read as data (the        *)
(* number scan alone reaches index len, the terminating NUL it stops at),  *)
(* and every write of parse_string, the terminating NUL and the bytes of a *)
(* backslash-u escape included, is at an index strictly below the buffer   *)
(* capacity.                                                               *)
(***************************************************************************)
C29_CursorAndBufferBounds ==
  call.op = "parse" =>
    /\ 0 <= call.pos /\ call.pos <= Len(call.input)
    /\ call.pos0 <= call.pos
    /\ \A r \in call.reads :
         /\ r >= 0
         /\ r < Len(call.input) \/ (call.scan /\ r = Len(call.input))
    /\ \A k \in 1..Len(call.writes) :
         /\ call.writes[k].at >= 0
         /\ call.writes[k].at < call.writes[k].cap

\* A three-byte escape stored where the buffer has to grow first.
C29_Witness ==
  /\ call.op = "parse" /\ call.status = "running"
  /\ call.writes = <<[at |-> INITIAL_STR_CAP - 3, cap |-> 2 * INITIAL_STR_CAP],
                     [at |-> INITIAL_STR_CAP - 2, cap |-> 2 * INITIAL_STR_CAP],
                     [at |-> INITIAL_STR_CAP - 1, cap |-> 2 * INITIAL_STR_CAP]>>
  /\ call.pos = Len(call.input) - 1

====
